---- MODULE Spec2Model ----
(***************************************************************************)
(* Model of the deepfake-detection ML service (ml-service/):               *)
(*   face_detection.py  get_face_detector, _detect_face_dnn,               *)
(*                      _detect_face_haar, detect_and_crop_face            *)
(*   preprocessing.py   preprocess_frames, preprocess_batch                *)
(*   app.py             extract_fake_probability, calculate_scores,        *)
(*                      run_model_inference, inference                     *)
(*                                                                         *)
(* What an operation returns is a function of its arguments and of the     *)
(* environment (detector output, file validity, classifier output); a      *)
(* behaviour draws them in its initial state.  An operation that calls     *)
(* get_face_detector runs as a thread: the call is taken statement by      *)
(* statement, and the operation stops where the code waits (urlretrieve,   *)
(* Image.open, the detector, the classifier), so the module globals and    *)
(* the detector files are seen as the code leaves them in between.         *)
(* Pixel coordinates are integers; centre coordinates, which the code      *)
(* holds as floats with a possible .5, are held doubled.  Probabilities    *)
(* and classifier scores are ten-thousandths (0..10000); score fields are  *)
(* exact rationals over a common denominator, rounded to hundredths on     *)
(* return, and the comparisons that rounding decides are made on the       *)
(* doubles of the code.                                                    *)
(***************************************************************************)
EXTENDS Integers, Sequences, FiniteSets, TLC

VARIABLES
    pc,                     \* operation under way and its position
    face_detector,          \* face_detection.py: _face_detector
    detector_initialized,   \* face_detection.py: _detector_initialized
    detection_method,       \* face_detection.py: _detection_method
    detector_env,           \* environment of get_face_detector / the detector
    img,                    \* <<img_w, img_h>> of the image passed in
    n_detections,           \* detections.shape[2]
    i,                      \* loop index of _detect_face_dnn
    detections,             \* detector output handed to the selector
    faces,                  \* _detect_face_dnn: faces (survivors so far)
    face_bbox,              \* box returned by the selector, None if none
    padding_percent,        \* detect_and_crop_face argument
    crop,                   \* what detect_and_crop_face returns
    frame_paths,            \* preprocess_frames argument
    max_frames,             \* preprocess_frames argument, None or <<m>>
    bad_paths,              \* frames whose preprocess_image raises
    sampled,                \* preprocess_frames: frame_paths after sampling
    frame_index,            \* preprocess_batch: position of the frame loop
    batch,                  \* what preprocess_frames returns or raises
    result,                 \* extract_fake_probability argument
    fake_prob,              \* what extract_fake_probability returns
    results,                \* calculate_scores argument
    media_type,             \* calculate_scores argument
    locals,                 \* calculate_scores: the scores before rounding
    scores,                 \* what calculate_scores returns
    model_loaded,           \* app.py: _model_loaded
    request,                \* the HTTP request the inference endpoint receives
    service_env,            \* what the endpoint's collaborators do
    response,               \* what the inference endpoint answers
    health,                 \* what the health endpoint answered last
    calls,                  \* calls the handler made of preprocessing and of
                            \* the classifier, in order, with the frames given
    returned,               \* what run_model_inference returned to the handler
    thread_pc,              \* position of each thread in face_detection.py
    thread_local,           \* each thread's locals: model_downloaded, detector...
    files,                  \* detector files on disk, whole or partly written
    init_entries,           \* times the initialisation body was entered
    downloads,              \* times each detector file was fetched
    loads                   \* times a detector was constructed

detectorVars == <<face_detector, detector_initialized, detection_method,
                  detector_env>>
faceVars == <<img, n_detections, i, detections, faces, face_bbox,
              padding_percent, crop>>
frameVars == <<frame_paths, max_frames, bad_paths, sampled, frame_index,
               batch>>
scoreVars == <<result, fake_prob, results, media_type, locals, scores>>

serviceVars == <<model_loaded, request, service_env, response, health, calls,
                 returned>>
threadVars == <<thread_pc, thread_local, files, init_entries, downloads, loads>>
restVars == <<serviceVars, threadVars>>

vars == <<pc, detectorVars, faceVars, frameVars, scoreVars, restVars>>

(***************************************************************************)
(* Bounds of the model.                                                    *)
(***************************************************************************)
MaxImg == 5         \* image width and height range over 1..MaxImg
MaxDets == 3        \* detections per image seen by the selector
SelImg == <<2, 2>>  \* image size used when exercising the selector alone
PaddingValues == {0, 30, 50, 100}
ConfidenceValues == {30, 40, 90}   \* hundredths: at, just above, well above 0.3

None == <<>>
Idle == <<>>

\* The arguments and results of the face operations while none is called.
FaceArgsIdle ==
    /\ img = Idle
    /\ n_detections = 0
    /\ i = 0
    /\ detections = <<>>
    /\ faces = <<>>
    /\ face_bbox = None
    /\ padding_percent = 0
    /\ crop = Idle

\* A component's variables while another component is exercised.
FaceIdle ==
    /\ face_detector = "None"
    /\ detector_initialized = FALSE
    /\ detection_method = "none"
    /\ detector_env = Idle
    /\ FaceArgsIdle

FramesIdle ==
    /\ frame_paths = <<>>
    /\ max_frames = None
    /\ bad_paths = {}
    /\ sampled = <<>>
    /\ frame_index = 0
    /\ batch = Idle

ScoresIdle ==
    /\ result = <<>>
    /\ fake_prob = Idle
    /\ results = <<>>
    /\ media_type = "UNKNOWN"
    /\ locals = Idle
    /\ scores = Idle

ServiceIdle ==
    /\ model_loaded = FALSE
    /\ request = Idle
    /\ service_env = Idle
    /\ response = Idle
    /\ health = Idle
    /\ calls = <<>>
    /\ returned = Idle

\* No thread is inside face_detection.py and none is counted.
NoThreads ==
    /\ thread_pc = Idle
    /\ thread_local = Idle
    /\ init_entries = 0
    /\ downloads = Idle
    /\ loads = 0

ThreadsIdle == NoThreads /\ files = {}

RestIdle == ServiceIdle /\ ThreadsIdle

Max(a, b) == IF b > a THEN b ELSE a
Min(a, b) == IF b < a THEN b ELSE a

(***************************************************************************)
(* face_detection.py: get_face_detector                                    *)
(***************************************************************************)
DnnMethod == "OpenCV DNN (SSD ResNet-10)"
HaarMethod == "OpenCV Haar Cascade (fallback)"
NoMethod == "none"

DetectorFiles == {"model", "config"}

\* A file urlretrieve has opened and not written to the end.
Partial(f) == IF f = "model" THEN "model.part" ELSE "config.part"

\* A file written to the end by a transfer that lost its beginning: another
\* urlretrieve opened the file, emptying it, while the transfer went on
\* writing from where it stood.
Holed(f) == IF f = "model" THEN "model.holed" ELSE "config.holed"

\* os.path.exists(filepath), line 33: true of a file that is not whole too.
Exists(f, fs) == f \in fs \/ Partial(f) \in fs \/ Holed(f) \in fs

\* How urlretrieve ends (lines 37-42): the file fetched; no connection, the
\* file not touched; or the transfer broken off, the file left partly
\* written.
FetchOutcomes == {"ok", "refused", "broken"}

\* What the environment decides: how the fetch of each file ends, whether
\* os.makedirs raises (line 56), whether constructing the detector raises
\* (lines 67, 73-74), whether the Haar cascade file loads (line 76), and
\* whether the detection routine raises later.
DetectorEnvs ==
    [model_fetch : FetchOutcomes, config_fetch : FetchOutcomes,
     makedirs_raises : BOOLEAN, load_raises : BOOLEAN,
     cascade_empty : BOOLEAN, detect_raises : BOOLEAN]

Fetch(f, env) == IF f = "model" THEN env.model_fetch ELSE env.config_fetch

\* _download_file, lines 31-42: what it returns with the files fs on disk.
download_file(f, fs, env) == Exists(f, fs) \/ Fetch(f, env) = "ok"

\* The files on disk after _download_file.
FilesAfterDownload(f, fs, env) ==
    IF Exists(f, fs) \/ Fetch(f, env) = "refused" THEN fs
    ELSE IF Fetch(f, env) = "ok" THEN (fs \ {Partial(f)}) \cup {f}
    ELSE (fs \ {f}) \cup {Partial(f)}

\* The files on disk after lines 62-63.
FilesAfterInit(fs, env) ==
    FilesAfterDownload("config", FilesAfterDownload("model", fs, env), env)

\* The three globals after a call of get_face_detector by a single caller,
\* detector files fs on disk.  readNetFromCaffe raises for a file that is
\* partly written.
get_face_detector(det, inited, method, fs, env) ==
    LET after_model == FilesAfterDownload("model", fs, env)
        after == FilesAfterInit(fs, env)
    IN  IF inited
          THEN [face_detector |-> det, detector_initialized |-> TRUE,
                detection_method |-> method]
        ELSE IF env.makedirs_raises
          THEN [face_detector |-> "None", detector_initialized |-> TRUE,
                detection_method |-> NoMethod]
        ELSE IF /\ download_file("model", fs, env)
                /\ download_file("config", after_model, env)
          THEN IF env.load_raises \/ after \cap DetectorFiles # DetectorFiles
                 THEN [face_detector |-> "None", detector_initialized |-> TRUE,
                       detection_method |-> NoMethod]
                 ELSE [face_detector |-> "net", detector_initialized |-> TRUE,
                       detection_method |-> DnnMethod]
        ELSE IF env.load_raises \/ env.cascade_empty
          THEN [face_detector |-> "None", detector_initialized |-> TRUE,
                detection_method |-> NoMethod]
        ELSE [face_detector |-> "cascade", detector_initialized |-> TRUE,
              detection_method |-> HaarMethod]

(***************************************************************************)
(* face_detection.py: _detect_face_dnn, _detect_face_haar                  *)
(* A DNN detection is [confidence, box]: confidence in hundredths, box the *)
(* corner coordinates <<x1, y1, x2, y2>> after scaling by the image size   *)
(* and astype("int").  A face is <<x, y, w, h, confidence>>; a Haar face   *)
(* is <<x, y, w, h>>.                                                      *)
(***************************************************************************)
confidence_threshold == 30

Area(f) == f[3] * f[4]

\* Variant: a confidence equal to the threshold passes.
DnnLoopBodyInclusive(fs, d, w, h, thr) ==
    IF d.confidence >= thr
      THEN LET x1 == Max(0, d.box[1])
               y1 == Max(0, d.box[2])
               x2 == Min(w, d.box[3])
               y2 == Min(h, d.box[4])
           IN  IF x2 > x1 /\ y2 > y1
                 THEN Append(fs, <<x1, y1, x2 - x1, y2 - y1, d.confidence>>)
                 ELSE fs
      ELSE fs

\* One iteration of the loop over detections: the faces list afterwards.
DnnLoopBody(fs, d, w, h, thr) ==
    IF d.confidence > thr
      THEN LET x1 == Max(0, d.box[1])
               y1 == Max(0, d.box[2])
               x2 == Min(w, d.box[3])
               y2 == Min(h, d.box[4])
           IN  IF x2 > x1 /\ y2 > y1
                 THEN Append(fs, <<x1, y1, x2 - x1, y2 - y1, d.confidence>>)
                 ELSE fs
      ELSE fs

\* Variant: the last element of maximal key.
RECURSIVE MaxByAreaLast(_, _, _)
MaxByAreaLast(fs, k, best) ==
    IF k > Len(fs) THEN best
    ELSE MaxByAreaLast(fs, k + 1,
                       IF Area(fs[k]) >= Area(best) THEN fs[k] ELSE best)

\* Python's max(faces, key=area): the first element of maximal key.
RECURSIVE MaxByAreaFrom(_, _, _)
MaxByAreaFrom(fs, k, best) ==
    IF k > Len(fs) THEN best
    ELSE MaxByAreaFrom(fs, k + 1,
                       IF Area(fs[k]) > Area(best) THEN fs[k] ELSE best)

largest_face(fs) == MaxByAreaFrom(fs, 2, fs[1])

DnnReturn(fs) ==
    IF fs = <<>> THEN None ELSE SubSeq(largest_face(fs), 1, 4)

RECURSIVE DnnFaces(_, _, _, _, _)
DnnFaces(dets, k, w, h, thr) ==
    IF k = 0 THEN <<>>
    ELSE DnnLoopBody(DnnFaces(dets, k - 1, w, h, thr), dets[k], w, h, thr)

detect_face_dnn(dets, w, h, thr) == DnnReturn(DnnFaces(dets, Len(dets), w, h, thr))

detect_face_haar(fs) ==
    IF Len(fs) = 0 THEN None ELSE largest_face(fs)

(***************************************************************************)
(* face_detection.py: detect_and_crop_face, the crop geometry              *)
(***************************************************************************)
\* The double 1 + padding_percent / 100 of line 229 is not the fraction
\* (100 + padding) / 100: entry padding + 1 is its error in units of
\* 1 / (100 * 2^52), for the integer paddings 0..100 (IEEE 754 binary64,
\* the quotient rounded first, then the sum).
PaddingFactorError ==
    <<
     0, 4, 8, 12, 16, 20, 24, 28, 32, 36,
     40, 44, 48, -48, 56, -40, -36, -32, -28, -24,
     -20, -16, -12, -8, -4, 0, 4, 8, 12, 16,
     20, 24, 28, 32, 36, 40, -56, 48, -48, 56,
     -40, -36, -32, -28, -24, -20, -16, -12, -8, -4,
     0, 4, 8, 12, 16, 20, 24, -72, 32, -64,
     40, -56, 48, -48, 56, -40, 64, -32, 72, -24,
     -20, -16, -12, -8, -4, 0, 4, 8, 12, 16,
     20, 24, -72, 32, -64, 40, -56, 48, -48, 56,
     -40, 64, -32, 72, -24, -20, -16, -12, -8, -4,
     0>>

RECURSIVE PowerOfTwoBelow(_, _)
PowerOfTwoBelow(n, acc) ==
    IF 2 * acc > n THEN acc ELSE PowerOfTwoBelow(n, 2 * acc)

\* int(max_dim * (1 + padding_percent / 100)), computed in doubles.  The
\* product differs from the exact one only by rounding, so the integer part
\* differs only when the exact product is an integer n and the double
\* product is rounded to a double below n: the factor is too small and
\* max_dim times its error exceeds half the spacing of the doubles below n.
CropSize(max_dim, padding) ==
    LET exact == (max_dim * (100 + padding)) \div 100
        err == PaddingFactorError[padding + 1]
        binade == PowerOfTwoBelow(exact, 1)
        half_spacing == IF exact = binade THEN 25 * binade ELSE 50 * binade
    IN  IF /\ (max_dim * (100 + padding)) % 100 = 0
           /\ err < 0
           /\ max_dim * (0 - err) > half_spacing
          THEN exact - 1
          ELSE exact

\* Variant: the far edge one pixel short, x2 = min(img_w, x1 + size - 1).
FinalUpdateShort(lo, size, extent) ==
    LET hi == Min(extent, lo + size - 1)
    IN  <<Max(0, hi - size), hi>>

\* Variant: no final re-clamp of the far edge to the image.
FinalUpdateUnclamped(lo, size, extent) == <<lo, lo + size>>

\* "Final update" on one axis: x2 = min(img_w, x1 + size); x1 = max(0, x2 - size).
FinalUpdate(lo, size, extent) ==
    LET hi == Min(extent, lo + size)
    IN  <<Max(0, hi - size), hi>>

\* Variant: the padded square only clipped to the image (lines 233-236),
\* neither shifted back nor re-extended.
CropRectClipped(img_w, img_h, bbox, padding) ==
    LET center2_x == 2 * bbox[1] + bbox[3]
        center2_y == 2 * bbox[2] + bbox[4]
        size == CropSize(Max(bbox[3], bbox[4]), padding)
        half_size == size \div 2
    IN  [x1 |-> Max(0, center2_x - 2 * half_size) \div 2,
         y1 |-> Max(0, center2_y - 2 * half_size) \div 2,
         x2 |-> Min(2 * img_w, center2_x + 2 * half_size) \div 2,
         y2 |-> Min(2 * img_h, center2_y + 2 * half_size) \div 2]

\* Lines 217-259.  center2_x, center2_y are the doubled centre coordinates.
CropRect(img_w, img_h, bbox, padding) ==
    LET x == bbox[1]
        y == bbox[2]
        w == bbox[3]
        h == bbox[4]
        center2_x == 2 * x + w
        center2_y == 2 * y + h
        max_dim == Max(w, h)
        size == CropSize(max_dim, padding)
        half_size == size \div 2
        x1a == Max(0, center2_x - 2 * half_size) \div 2
        y1a == Max(0, center2_y - 2 * half_size) \div 2
        x2a == Min(2 * img_w, center2_x + 2 * half_size) \div 2
        y2a == Min(2 * img_h, center2_y + 2 * half_size) \div 2
        crop_w == x2a - x1a
        crop_h == y2a - y1a
        x2b == IF crop_w < size /\ x1a = 0 THEN Min(img_w, size) ELSE x2a
        x1b == IF crop_w < size /\ x1a # 0 /\ x2a = img_w
                 THEN Max(0, img_w - size) ELSE x1a
        y2b == IF crop_h < size /\ y1a = 0 THEN Min(img_h, size) ELSE y2a
        y1b == IF crop_h < size /\ y1a # 0 /\ y2a = img_h
                 THEN Max(0, img_h - size) ELSE y1a
        x2 == FinalUpdate(x1b, size, img_w)[2]
        y2 == FinalUpdate(y1b, size, img_h)[2]
        x1 == FinalUpdate(x1b, size, img_w)[1]
        y1 == FinalUpdate(y1b, size, img_h)[1]
    IN  [x1 |-> x1, y1 |-> y1, x2 |-> x2, y2 |-> y2]

\* Variant: the full image reported with a bbox covering it.
FullImageWithBox(im) ==
    [width |-> im[1], height |-> im[2], bbox |-> <<0, 0, im[1], im[2]>>,
     full_image |-> TRUE]

\* The full image returned as is: original size, bbox None.
FullImage(im) ==
    [width |-> im[1], height |-> im[2], bbox |-> None, full_image |-> TRUE]

\* image_rgb[y1:y2, x1:x2] and the bbox (x1, y1, x2-x1, y2-y1).
FaceCrop(r) ==
    [width |-> r.x2 - r.x1, height |-> r.y2 - r.y1,
     bbox |-> <<r.x1, r.y1, r.x2 - r.x1, r.y2 - r.y1>>, full_image |-> FALSE]

\* The box the detection routine matching the method yields.
DetectFace(method, dets, im) ==
    IF method = DnnMethod
      THEN detect_face_dnn(dets, im[1], im[2], confidence_threshold)
      ELSE detect_face_haar(dets)

detect_and_crop_face(detector, method, env, dets, im, padding) ==
    IF detector = "None" THEN FullImage(im)
    ELSE IF env.detect_raises THEN FullImage(im)
    ELSE LET bbox == DetectFace(method, dets, im)
         IN  IF bbox = None THEN FullImage(im)
             ELSE FaceCrop(CropRect(im[1], im[2], bbox, padding))

(***************************************************************************)
(* face_detection.py: get_face_detector and its callers, step by step      *)
(* The module takes no lock: a thread may be preempted between any two     *)
(* statements, and it waits in urlretrieve, in the construction of the     *)
(* detector and in the detector itself.  thread_pc[t] is the line thread t *)
(* is at, thread_local[t] its locals: model and config (model_downloaded   *)
(* and config_downloaded, lines 62-63), the detector its call of           *)
(* get_face_detector returned, the detection routine it picked, how the    *)
(* routine ended, and the function it is executing (caller).  The module's *)
(* detector is "None", "net", "cascade", or "empty_cascade" for the        *)
(* CascadeClassifier that did not load, before line 78 drops it.           *)
(***************************************************************************)
Callers == {"detect_and_crop_face", "detect_faces_in_frame",
            "get_detection_method"}

\* The locals of a thread entering caller.  built is the object the
\* constructor call of line 67 or 74 has returned and the assignment has not
\* stored yet; cut says that the file the thread is writing was opened, and
\* so emptied, by another urlretrieve since the thread opened it.
EnterCall(caller) ==
    [model |-> FALSE, config |-> FALSE, caller |-> caller, detector |-> "None",
     routine |-> "unset", outcome |-> "unset", method |-> "unset",
     built |-> "None", cut |-> FALSE]

\* Thread t is running and stands at line.
At(t, line) == t \in DOMAIN thread_pc /\ thread_pc[t] = line
AtAny(t, lines) == t \in DOMAIN thread_pc /\ thread_pc[t] \in lines

\* What the steps of face_detection.py leave alone.
callVars == <<faceVars, frameVars, scoreVars, serviceVars>>

\* Where a thread continues when get_face_detector returns to its caller.
AfterCall(t) ==
    IF thread_local[t].caller = "get_detection_method" THEN "line_366"
                                                       ELSE "line_196"

\* The position after _download_file has returned for file f.
AfterDownload(f) == IF f = "model" THEN "exists_config" ELSE "line_65"

\* The positions of a thread inside _download_file for file f: at the test
\* of line 33, calling urlretrieve, and while urlretrieve writes the file.
ExistsPc(f) == IF f = "model" THEN "exists_model" ELSE "exists_config"
FetchPc(f) == IF f = "model" THEN "fetch_model" ELSE "fetch_config"
WritePc(f) == IF f = "model" THEN "write_model" ELSE "write_config"

\* How a fetch of f may end.  Where several threads fetch, a download that
\* can succeed may still fail for any one of them; a single caller meets
\* the outcome the environment holds.
FetchOutcomesFor(f) ==
    IF Fetch(f, detector_env) = "ok" /\ Len(thread_pc) > 1
      THEN FetchOutcomes ELSE {Fetch(f, detector_env)}

\* Lines 364-365 of get_detection_method: initialise if needed.
CheckMethodInitialized(t) ==
    /\ At(t, "line_364")
    /\ thread_pc' = [thread_pc EXCEPT
                        ![t] = IF detector_initialized THEN "line_366"
                                                       ELSE "line_49"]
    /\ UNCHANGED <<pc, detectorVars, callVars, thread_local, files,
                   init_entries, downloads, loads>>

\* Lines 49-50: return the detector if initialised, else enter the try.
CheckInitialized(t) ==
    /\ At(t, "line_49")
    /\ IF detector_initialized
         THEN /\ thread_pc' = [thread_pc EXCEPT ![t] = AfterCall(t)]
              /\ thread_local' = [thread_local EXCEPT
                                     ![t].detector = face_detector]
              /\ UNCHANGED init_entries
         ELSE /\ thread_pc' = [thread_pc EXCEPT ![t] = "line_56"]
              /\ init_entries' = init_entries + 1
              /\ UNCHANGED thread_local
    /\ UNCHANGED <<pc, detectorVars, callVars, files, downloads, loads>>

\* Lines 54-59: the models directory is there or has been made.
MakeDirs(t) ==
    /\ At(t, "line_56")
    /\ ~detector_env.makedirs_raises
    /\ thread_pc' = [thread_pc EXCEPT ![t] = "exists_model"]
    /\ UNCHANGED <<pc, detectorVars, callVars, thread_local, files,
                   init_entries, downloads, loads>>

\* Line 33 of _download_file for file f: present, nothing to fetch.
FileExists(t, f) ==
    /\ At(t, ExistsPc(f))
    /\ Exists(f, files)
    /\ thread_local' = [thread_local EXCEPT ![t][f] = TRUE]
    /\ thread_pc' = [thread_pc EXCEPT ![t] = AfterDownload(f)]
    /\ UNCHANGED <<pc, detectorVars, callVars, files, init_entries, downloads,
                   loads>>

\* Line 33 of _download_file for file f: absent, go on to fetch it.
FileAbsent(t, f) ==
    /\ At(t, ExistsPc(f))
    /\ ~Exists(f, files)
    /\ thread_pc' = [thread_pc EXCEPT ![t] = FetchPc(f)]
    /\ UNCHANGED <<pc, detectorVars, callVars, thread_local, files,
                   init_entries, downloads, loads>>

\* Line 37, urlretrieve called for file f: no connection, and lines 40-42
\* return False with the file untouched; or the file is opened for writing,
\* which empties it, and the transfer begins.  A transfer of another thread
\* into the same file goes on from where it stands: it has been cut.
FetchFile(t, f) ==
    /\ At(t, FetchPc(f))
    /\ downloads' = [downloads EXCEPT ![f] = downloads[f] + 1]
    /\ \E outcome \in FetchOutcomesFor(f) :
          IF outcome = "refused"
            THEN /\ thread_local' = [thread_local EXCEPT ![t][f] = FALSE]
                 /\ thread_pc' = [thread_pc EXCEPT ![t] = AfterDownload(f)]
                 /\ UNCHANGED files
            ELSE /\ files' = (files \ {f, Holed(f)}) \cup {Partial(f)}
                 /\ thread_local' =
                       [u \in DOMAIN thread_local |->
                           IF u = t
                             THEN [thread_local[u] EXCEPT !.cut = FALSE]
                           ELSE IF thread_pc[u] = WritePc(f)
                             THEN [thread_local[u] EXCEPT !.cut = TRUE]
                           ELSE thread_local[u]]
                 /\ thread_pc' = [thread_pc EXCEPT ![t] = WritePc(f)]
    /\ UNCHANGED <<pc, detectorVars, callVars, init_entries, loads>>

\* The file f once a transfer into it has ended.  The transfers write the
\* same bytes at the same places.  One that ran to the end and was not cut
\* leaves the file whole.  One that was cut wrote the end of the file but
\* not all of its beginning: the file is whole if the transfers still under
\* way have written that part, holed if not.  One that broke off leaves the
\* file as it is, and so does one that ends on a whole or a holed file.
FilesAfterTransfer(f, fs, outcome, cut) ==
    LET whole == (fs \ {Partial(f), Holed(f)}) \cup {f}
        holed == (fs \ {Partial(f), f}) \cup {Holed(f)}
    IN  IF f \in fs \/ Holed(f) \in fs THEN {fs}
        ELSE IF outcome = "ok" /\ ~cut THEN {whole}
        ELSE IF outcome = "ok" THEN {whole, holed}
        ELSE {fs}

\* Line 37, urlretrieve of thread t writes the block that a holed file
\* lacks: the file is whole, and the transfer goes on with the blocks that
\* follow.
FillHole(t, f) ==
    /\ Holed(f) \in files
    /\ files' = (files \ {Holed(f)}) \cup {f}
    /\ UNCHANGED <<thread_pc, thread_local>>

\* Lines 37-42, the transfer of thread t ends: it ran to the end and
\* _download_file returns True, or it broke off, urlretrieve raises and
\* _download_file returns False.  A transfer that was not cut has written
\* every block when it has run to the end: the file is not holed then.
EndTransfer(t, f) ==
    \E outcome \in FetchOutcomesFor(f) \ {"refused"} :
        /\ (outcome = "ok" /\ Holed(f) \in files) => thread_local[t].cut
        /\ files' \in FilesAfterTransfer(f, files, outcome, thread_local[t].cut)
        /\ thread_local' = [thread_local EXCEPT ![t][f] = (outcome = "ok"),
                                                ![t].cut = FALSE]
        /\ thread_pc' = [thread_pc EXCEPT ![t] = AfterDownload(f)]

\* Lines 37-42, urlretrieve writing file f block by block: a step writes
\* the block that makes a holed file whole, or ends the transfer.
FetchDone(t, f) ==
    /\ At(t, WritePc(f))
    /\ (FillHole(t, f) \/ EndTransfer(t, f))
    /\ UNCHANGED <<pc, detectorVars, callVars, init_entries, downloads, loads>>

\* Line 65: the DNN net if both downloads returned True, else the cascade.
ChooseDetector(t) ==
    /\ At(t, "line_65")
    /\ thread_pc' = [thread_pc EXCEPT
                        ![t] = IF thread_local[t].model /\ thread_local[t].config
                                 THEN "read_config" ELSE "line_74"]
    /\ UNCHANGED <<pc, detectorVars, callVars, thread_local, files,
                   init_entries, downloads, loads>>

\* The file readNetFromCaffe reads at a position of line 67: the prototxt
\* first, then the caffemodel.
FileRead(line) == IF line = "read_config" THEN "config" ELSE "model"

\* Whether the constructor call thread t is in raises at its position:
\* readNetFromCaffe on a file that is not whole as it reads it, or the
\* environment, when the constructor returns.
LoadRaises(t) ==
    \/ /\ AtAny(t, {"read_config", "read_model"})
       /\ FileRead(thread_pc[t]) \notin files
    \/ /\ AtAny(t, {"read_model", "line_74"})
       /\ detector_env.load_raises

\* Line 67, readNetFromCaffe reading one of its two files; having read the
\* second, it returns the net.
ReadDetectorFile(t) ==
    /\ AtAny(t, {"read_config", "read_model"})
    /\ ~LoadRaises(t)
    /\ IF thread_pc[t] = "read_config"
         THEN /\ loads' = loads + 1
              /\ thread_pc' = [thread_pc EXCEPT ![t] = "read_model"]
              /\ UNCHANGED thread_local
         ELSE /\ thread_local' = [thread_local EXCEPT ![t].built = "net"]
              /\ thread_pc' = [thread_pc EXCEPT ![t] = "store_net"]
              /\ UNCHANGED loads
    /\ UNCHANGED <<pc, detectorVars, callVars, files, init_entries, downloads>>

\* Lines 73-74, right-hand side: CascadeClassifier returns a cascade, loaded
\* or empty.
ConstructCascade(t) ==
    /\ At(t, "line_74")
    /\ ~LoadRaises(t)
    /\ loads' = loads + 1
    /\ thread_local' = [thread_local EXCEPT
                           ![t].built = IF detector_env.cascade_empty
                                          THEN "empty_cascade" ELSE "cascade"]
    /\ thread_pc' = [thread_pc EXCEPT ![t] = "store_cascade"]
    /\ UNCHANGED <<pc, detectorVars, callVars, files, init_entries, downloads>>

\* The assignments of lines 67 and 74: the object the constructor returned
\* is stored in _face_detector; the method name is not yet written.
LoadDetector(t) ==
    /\ AtAny(t, {"store_net", "store_cascade"})
    /\ face_detector' = thread_local[t].built
    /\ thread_pc' = [thread_pc EXCEPT
                        ![t] = IF thread_pc[t] = "store_net" THEN "line_68"
                                                           ELSE "line_76"]
    /\ UNCHANGED <<pc, detector_initialized, detection_method, detector_env,
                   callVars, thread_local, files, init_entries, downloads,
                   loads>>

\* Line 76 asks the module's _face_detector, whoever stored it, whether it
\* is empty: a cascade that did not load is, a net or a loaded cascade is
\* not.
CheckEmpty(t) ==
    /\ At(t, "line_76")
    /\ face_detector # "None"
    /\ thread_pc' = [thread_pc EXCEPT
                        ![t] = IF face_detector = "empty_cascade"
                                 THEN "line_78" ELSE "line_81"]
    /\ UNCHANGED <<pc, detectorVars, callVars, thread_local, files,
                   init_entries, downloads, loads>>

\* The assignments to _detection_method of lines 68, 79 and 81.
SetMethod(t) ==
    /\ AtAny(t, {"line_68", "line_79", "line_81"})
    /\ detection_method' = IF thread_pc[t] = "line_68" THEN DnnMethod
                           ELSE IF thread_pc[t] = "line_79" THEN NoMethod
                           ELSE HaarMethod
    /\ thread_pc' = [thread_pc EXCEPT ![t] = "line_84"]
    /\ UNCHANGED <<pc, face_detector, detector_initialized, detector_env,
                   callVars, thread_local, files, init_entries, downloads,
                   loads>>

\* Lines 84 and 89.
SetInitialized(t) ==
    /\ AtAny(t, {"line_84", "line_89"})
    /\ detector_initialized' = TRUE
    /\ thread_pc' = [thread_pc EXCEPT
                        ![t] = IF thread_pc[t] = "line_84" THEN "line_85"
                                                           ELSE "line_90"]
    /\ UNCHANGED <<pc, face_detector, detection_method, detector_env, callVars,
                   thread_local, files, init_entries, downloads, loads>>

\* Line 85: return _face_detector, as the module holds it now.
ReturnDetector(t) ==
    /\ At(t, "line_85")
    /\ thread_local' = [thread_local EXCEPT ![t].detector = face_detector]
    /\ thread_pc' = [thread_pc EXCEPT ![t] = AfterCall(t)]
    /\ UNCHANGED <<pc, detectorVars, callVars, files, init_entries, downloads,
                   loads>>

\* An exception inside the try, caught at line 87: os.makedirs raised (line
\* 56), the constructor call raised (lines 67, 74), or line 76 found None in
\* _face_detector, put there by another thread.
InitRaises(t) ==
    /\ \/ At(t, "line_56") /\ detector_env.makedirs_raises
       \/ LoadRaises(t)
       \/ At(t, "line_76") /\ face_detector = "None"
    /\ loads' = IF thread_pc[t] \in {"read_config", "line_74"} THEN loads + 1
                                                               ELSE loads
    /\ thread_pc' = [thread_pc EXCEPT ![t] = "line_89"]
    /\ UNCHANGED <<pc, detectorVars, callVars, thread_local, files,
                   init_entries, downloads>>

\* The assignments of None to _face_detector, lines 78 and 90; line 91 and
\* the return of None of line 92.
ResetDetector(t) ==
    /\ AtAny(t, {"line_78", "line_90", "line_91"})
    /\ IF thread_pc[t] = "line_91"
         THEN /\ detection_method' = NoMethod
              /\ thread_local' = [thread_local EXCEPT ![t].detector = "None"]
              /\ thread_pc' = [thread_pc EXCEPT ![t] = AfterCall(t)]
              /\ UNCHANGED face_detector
         ELSE /\ face_detector' = "None"
              /\ thread_pc' = [thread_pc EXCEPT
                                  ![t] = IF thread_pc[t] = "line_78"
                                           THEN "line_79" ELSE "line_91"]
              /\ UNCHANGED <<detection_method, thread_local>>
    /\ UNCHANGED <<pc, detector_initialized, detector_env, callVars, files,
                   init_entries, downloads, loads>>

\* Lines 196-207 of detect_and_crop_face, 299-311 of detect_faces_in_frame:
\* without a detector the caller returns at once (line 197); else it enters
\* the DNN routine if _detection_method starts with "OpenCV DNN" (line 204),
\* else the Haar routine (line 207), with the detector its call obtained.
Dispatch(t) ==
    /\ At(t, "line_196")
    /\ LET detector == thread_local[t].detector
           routine == IF detector = "None" THEN "none"
                      ELSE IF detection_method = DnnMethod THEN "dnn"
                      ELSE "haar"
       IN  /\ thread_local' = [thread_local EXCEPT ![t].routine = routine]
           /\ thread_pc' = [thread_pc EXCEPT
                               ![t] = IF routine = "none" THEN "line_197"
                                      ELSE IF routine = "dnn" THEN "line_204"
                                      ELSE "line_207"]
    /\ UNCHANGED <<pc, detectorVars, callVars, files, init_entries, downloads,
                   loads>>

\* How the routine thread t entered ends: a routine given the other kind of
\* detector, or a cascade that did not load, raises, as it does when the
\* environment says so; the except clause then returns the full image
\* (lines 273-282) or no faces (lines 343-345).
DetectionOutcome(t) ==
    LET detector == thread_local[t].detector
        routine == thread_local[t].routine
    IN  IF routine = "none" THEN "no_detector"
        ELSE IF /\ ~detector_env.detect_raises
                /\ \/ routine = "dnn" /\ detector = "net"
                   \/ routine = "haar" /\ detector = "cascade"
          THEN "detected"
        ELSE "raised"

InDetection(t) == AtAny(t, {"line_197", "line_204", "line_207"})

\* net.forward() or detectMultiScale returns, or line 197 is reached, and
\* the caller returns.
Detect(t) ==
    /\ pc = "threads"
    /\ InDetection(t)
    /\ thread_local' = [thread_local EXCEPT ![t].outcome = DetectionOutcome(t)]
    /\ thread_pc' = [thread_pc EXCEPT ![t] = "returned"]
    /\ UNCHANGED <<pc, detectorVars, callVars, files, init_entries, downloads,
                   loads>>

\* Line 366 of get_detection_method.
ReturnMethod(t) ==
    /\ At(t, "line_366")
    /\ thread_local' = [thread_local EXCEPT ![t].method = detection_method]
    /\ thread_pc' = [thread_pc EXCEPT ![t] = "returned"]
    /\ UNCHANGED <<pc, detectorVars, callVars, files, init_entries, downloads,
                   loads>>

\* One step of thread t inside get_face_detector or at the dispatch that
\* follows it.
DetectorStep(t) ==
    \/ CheckInitialized(t)
    \/ MakeDirs(t)
    \/ \E f \in DetectorFiles : FileExists(t, f)
    \/ \E f \in DetectorFiles : FileAbsent(t, f)
    \/ \E f \in DetectorFiles : FetchFile(t, f)
    \/ \E f \in DetectorFiles : FetchDone(t, f)
    \/ ChooseDetector(t)
    \/ ReadDetectorFile(t)
    \/ ConstructCascade(t)
    \/ LoadDetector(t)
    \/ CheckEmpty(t)
    \/ SetMethod(t)
    \/ SetInitialized(t)
    \/ ReturnDetector(t)
    \/ InitRaises(t)
    \/ ResetDetector(t)
    \/ Dispatch(t)

\* The calling thread of an operation that runs alone.
Caller == 1

\* The thread variables as one operation, running alone, starts at line.
OneCaller(line, caller) ==
    /\ thread_pc = <<line>>
    /\ thread_local = <<EnterCall(caller)>>
    /\ init_entries = 0
    /\ downloads = [f \in DetectorFiles |-> 0]
    /\ loads = 0

(***************************************************************************)
(* Inputs of the face-detection operations                                 *)
(***************************************************************************)
ImageSizes == (1..MaxImg) \X (1..MaxImg)

\* The environment in which nothing fails.
Working ==
    [model_fetch |-> "ok", config_fetch |-> "ok", makedirs_raises |-> FALSE,
     load_raises |-> FALSE, cascade_empty |-> FALSE, detect_raises |-> FALSE]

\* The detector files found on disk and the environment of a process that
\* has not called get_face_detector yet: an empty models directory with
\* everything working; both files there from an earlier run; the model file
\* left partly written by an earlier run; one fetch that fails, with the
\* Haar cascade loading and not loading; os.makedirs or the construction
\* raising; and a detector, DNN or Haar, whose detection raises.
DetectorScenarios ==
    {[files |-> fs, env |-> Working] :
        fs \in {{}, DetectorFiles, {Partial("model"), "config"}}}
    \cup {[files |-> {}, env |-> [Working EXCEPT !.model_fetch = o]] :
             o \in {"refused", "broken"}}
    \cup {[files |-> {}, env |-> [Working EXCEPT !.config_fetch = o]] :
             o \in {"refused", "broken"}}
    \cup {[files |-> {}, env |-> [Working EXCEPT !.config_fetch = "refused",
                                                 !.cascade_empty = TRUE]],
          [files |-> {}, env |-> [Working EXCEPT !.makedirs_raises = TRUE]],
          [files |-> {}, env |-> [Working EXCEPT !.load_raises = TRUE]],
          [files |-> DetectorFiles,
           env |-> [Working EXCEPT !.detect_raises = TRUE]],
          [files |-> {}, env |-> [Working EXCEPT !.model_fetch = "refused",
                                                 !.detect_raises = TRUE]]}

\* The scenarios preprocessing is exercised with: the detector files
\* fetched, found, or found partly written, a fetch refused, and os.makedirs
\* raising.
PreprocessScenarios ==
    {sc \in DetectorScenarios :
        /\ ~sc.env.detect_raises /\ ~sc.env.load_raises /\ ~sc.env.cascade_empty
        /\ sc.env.config_fetch = "ok" /\ sc.env.model_fetch # "broken"}

\* The module globals a scenario ends in once get_face_detector has run.
Initialised(sc) ==
    get_face_detector("None", FALSE, NoMethod, sc.files, sc.env)

\* The module globals and the environment before the first call.
FreshDetector(scenarios) ==
    /\ face_detector = "None"
    /\ detector_initialized = FALSE
    /\ detection_method = NoMethod
    /\ \E sc \in scenarios : detector_env = sc.env /\ files = sc.files

\* Boxes <<x, y, w, h>> with w, h >= 1 inside an image.
BoxesIn(im) ==
    {<<x, y, w, h>> : x \in 0..(im[1] - 1), y \in 0..(im[2] - 1),
                      w \in 1..im[1], h \in 1..im[2]}
    \cap {b \in (0..im[1]) \X (0..im[2]) \X (1..im[1]) \X (1..im[2]) :
            b[1] + b[3] <= im[1] /\ b[2] + b[4] <= im[2]}

\* Detector outputs of at most one element, corners inside [0,w]x[0,h].
DnnOutputs(im) ==
    {<<>>} \cup
    {<<[confidence |-> c, box |-> <<x1, y1, x2, y2>>]>> :
        c \in {30, 90}, x1 \in 0..im[1], y1 \in 0..im[2],
        x2 \in 0..im[1], y2 \in 0..im[2]}

HaarOutputs(im) == {<<>>} \cup {<<b>> : b \in BoxesIn(im)}

\* One detection as the selector may meet it: corners may fall outside.
DnnPool(im) ==
    {[confidence |-> c, box |-> <<x1, y1, x2, y2>>] :
        c \in ConfidenceValues, x1 \in (-1)..im[1], y1 \in (-1)..im[2],
        x2 \in 0..(im[1] + 1), y2 \in 0..(im[2] + 1)}

RECURSIVE SeqsUpTo(_, _)
SeqsUpTo(S, n) ==
    IF n = 0 THEN {<<>>}
    ELSE LET shorter == SeqsUpTo(S, n - 1)
         IN  shorter \cup {Append(s, e) : s \in {t \in shorter : Len(t) = n - 1}, e \in S}

\* The worked example: a 100x100 image with the face box (40, 40, 20, 20).
ExampleImg == <<100, 100>>
ExampleDetections == <<[confidence |-> 90, box |-> <<40, 40, 60, 60>>]>>
ExamplePadding == 30

\* A 100x100 face in a 640x480 image cropped with padding 15, where
\* 100 * 1.15 is 114.99999999999999 in doubles.
RoundingExample ==
    [img |-> <<640, 480>>, padding_percent |-> 15,
     detections |-> <<[confidence |-> 90, box |-> <<100, 100, 200, 200>>]>>]

(***************************************************************************)
(* detect_and_crop_face: one call on a fresh process                       *)
(* The call initialises the detector step by step (DetectorStep), enters   *)
(* the detection routine and, when the routine returns, crops.             *)
(***************************************************************************)
\* What the routine the caller entered may return for image im.
DetectorOutputs(routine, im) ==
    IF im = ExampleImg THEN {ExampleDetections}
    ELSE IF im = RoundingExample.img THEN {RoundingExample.detections}
    ELSE IF routine = "dnn" THEN DnnOutputs(im)
    ELSE HaarOutputs(im)

InitCrop ==
    /\ pc = "crop_call"
    /\ FreshDetector(DetectorScenarios)
    /\ \/ /\ img \in ImageSizes
          /\ padding_percent \in PaddingValues
       \/ /\ files = DetectorFiles /\ detector_env = Working
          /\ \/ img = ExampleImg /\ padding_percent = ExamplePadding
             \/ /\ img = RoundingExample.img
                /\ padding_percent = RoundingExample.padding_percent
    /\ OneCaller("line_49", "detect_and_crop_face")
    /\ detections = <<>>
    /\ n_detections = 0
    /\ i = 0
    /\ faces = <<>>
    /\ face_bbox = None
    /\ crop = Idle
    /\ FramesIdle
    /\ ScoresIdle
    /\ ServiceIdle

\* Lines 196-282 from the detection routine on: net.forward() or
\* detectMultiScale returns its detections (or raises, or there is no
\* detector), the largest face is selected and the crop is returned.
DetectAndCropFace ==
    /\ pc = "crop_call"
    /\ InDetection(Caller)
    /\ LET detector == thread_local[Caller].detector
           routine == thread_local[Caller].routine
           method == IF routine = "dnn" THEN DnnMethod ELSE HaarMethod
           outcome == DetectionOutcome(Caller)
       IN  /\ \E dets \in IF outcome = "detected"
                            THEN DetectorOutputs(routine, img) ELSE {<<>>} :
                 /\ detections' = dets
                 /\ n_detections' = Len(dets)
                 /\ face_bbox' = IF outcome = "detected"
                                   THEN DetectFace(method, dets, img) ELSE None
                 /\ crop' = detect_and_crop_face(detector, method, detector_env,
                                                 dets, img, padding_percent)
           /\ thread_local' = [thread_local EXCEPT ![Caller].outcome = outcome]
    /\ thread_pc' = [thread_pc EXCEPT ![Caller] = "returned"]
    /\ pc' = "crop_done"
    /\ UNCHANGED <<detectorVars, img, i, faces, padding_percent, frameVars,
                   scoreVars, serviceVars, files, init_entries, downloads,
                   loads>>

NextCrop == DetectorStep(Caller) \/ DetectAndCropFace

SpecCrop == InitCrop /\ [][NextCrop]_vars

(***************************************************************************)
(* _detect_face_dnn and _detect_face_haar on their own                     *)
(***************************************************************************)
InitSelect ==
    /\ \E sc \in DetectorScenarios :
          LET g == Initialised(sc)
          IN  /\ ~sc.env.detect_raises
              /\ g.face_detector # "None"
              /\ detector_env = sc.env
              /\ files = FilesAfterInit(sc.files, sc.env)
              /\ face_detector = g.face_detector
              /\ detector_initialized = g.detector_initialized
              /\ detection_method = g.detection_method
              /\ pc = IF g.detection_method = DnnMethod THEN "dnn_loop"
                                                        ELSE "haar_call"
              /\ n_detections \in IF g.detection_method = DnnMethod
                                    THEN 0..MaxDets ELSE {0}
    /\ img = SelImg
    /\ i = 0
    /\ detections = <<>>
    /\ faces = <<>>
    /\ face_bbox = None
    /\ padding_percent = 0
    /\ crop = Idle
    /\ FramesIdle
    /\ ScoresIdle
    /\ ServiceIdle
    /\ NoThreads

\* for i in range(detections.shape[2]): one detection read and filtered.
DnnLoopStep ==
    /\ pc = "dnn_loop"
    /\ i < n_detections
    /\ \E d \in DnnPool(img) :
          faces' = DnnLoopBody(faces, d, img[1], img[2], confidence_threshold)
    /\ i' = i + 1
    /\ UNCHANGED <<pc, face_detector, detector_initialized, detection_method,
                   detector_env, img, n_detections, detections, face_bbox,
                   padding_percent, crop, frameVars, scoreVars,
                   restVars>>

\* After the loop: None or the largest face without its confidence.
DnnLoopExit ==
    /\ pc = "dnn_loop"
    /\ i = n_detections
    /\ face_bbox' = DnnReturn(faces)
    /\ pc' = "select_done"
    /\ UNCHANGED <<face_detector, detector_initialized, detection_method,
                   detector_env, img, n_detections, i, detections, faces,
                   padding_percent, crop, frameVars, scoreVars,
                   restVars>>

\* _detect_face_haar: detectMultiScale's faces, then the largest.
HaarDetect ==
    /\ pc = "haar_call"
    /\ \E fs \in SeqsUpTo(BoxesIn(img), MaxDets) :
          /\ faces' = fs
          /\ n_detections' = Len(fs)
          /\ face_bbox' = detect_face_haar(fs)
    /\ pc' = "select_done"
    /\ UNCHANGED <<face_detector, detector_initialized, detection_method,
                   detector_env, img, i, detections, padding_percent, crop,
                   frameVars, scoreVars,
                   restVars>>

NextSelect == DnnLoopStep \/ DnnLoopExit \/ HaarDetect

SpecSelect == InitSelect /\ [][NextSelect]_vars

(***************************************************************************)
(* _detect_face_dnn as one call on a recorded detector output              *)
(***************************************************************************)
MaxDnnDets == 2         \* detections in a recorded detector output

\* Detections on the SelImg image: confidence at and above the threshold,
\* corners inside the image, on its border and outside it.
DnnSmallPool ==
    {[confidence |-> c, box |-> <<x1, y1, x2, y2>>] :
        c \in {confidence_threshold, 40}, x1 \in {-1, 1}, y1 \in {-1, 1},
        x2 \in {1, SelImg[1] + 1}, y2 \in {1, SelImg[2] + 1}}

InitDnn ==
    /\ pc = "dnn_call"
    /\ face_detector = "net"
    /\ detector_initialized = TRUE
    /\ detection_method = DnnMethod
    /\ detector_env = Working
    /\ files = DetectorFiles
    /\ img = SelImg
    /\ detections \in SeqsUpTo(DnnSmallPool, MaxDnnDets)
    /\ n_detections = Len(detections)
    /\ i = 0
    /\ faces = <<>>
    /\ face_bbox = None
    /\ padding_percent = 0
    /\ crop = Idle
    /\ FramesIdle
    /\ ScoresIdle
    /\ ServiceIdle
    /\ NoThreads

\* Lines 115-137 on the detections net.forward() returned.
DetectFaceDnn ==
    /\ pc = "dnn_call"
    /\ faces' = DnnFaces(detections, Len(detections), img[1], img[2],
                         confidence_threshold)
    /\ i' = n_detections
    /\ face_bbox' = detect_face_dnn(detections, img[1], img[2],
                                    confidence_threshold)
    /\ pc' = "dnn_done"
    /\ UNCHANGED <<face_detector, detector_initialized, detection_method,
                   detector_env, img, n_detections, detections,
                   padding_percent, crop, frameVars, scoreVars, restVars>>

NextDnn == DetectFaceDnn

SpecDnn == InitDnn /\ [][NextDnn]_vars

\* The detection's corners clamped to [0,w]x[0,h].
ClampedBox(d) ==
    <<IF d.box[1] < 0 THEN 0 ELSE d.box[1],
      IF d.box[2] < 0 THEN 0 ELSE d.box[2],
      IF d.box[3] > img[1] THEN img[1] ELSE d.box[3],
      IF d.box[4] > img[2] THEN img[2] ELSE d.box[4]>>

\* Confidence strictly above 0.3 and a clamped box with x2 > x1, y2 > y1.
IsCandidate(d) ==
    /\ d.confidence > 30
    /\ ClampedBox(d)[3] > ClampedBox(d)[1]
    /\ ClampedBox(d)[4] > ClampedBox(d)[2]

\* C17: _detect_face_dnn keeps a detection as a candidate if and only if
\* its confidence is strictly greater than the threshold and its clamped
\* box has x2 > x1 and y2 > y1; the box returned has width and height at
\* least 1 and lies inside the image; None is returned exactly when there
\* is no candidate.
C17_DnnFilter ==
    pc = "dnn_done" =>
        LET kept == SelectSeq(detections, IsCandidate)
        IN  /\ Len(faces) = Len(kept)
            /\ \A k \in 1..Len(kept) :
                  LET b == ClampedBox(kept[k])
                  IN  faces[k] = <<b[1], b[2], b[3] - b[1], b[4] - b[2],
                                  kept[k].confidence>>
            /\ (face_bbox = None) <=> (kept = <<>>)
            /\ face_bbox # None =>
                  /\ face_bbox[3] >= 1 /\ face_bbox[4] >= 1
                  /\ 0 <= face_bbox[1] /\ face_bbox[1] + face_bbox[3] <= img[1]
                  /\ 0 <= face_bbox[2] /\ face_bbox[2] + face_bbox[4] <= img[2]

\* A detection at exactly the threshold with a good box is dropped and a
\* confident one overhanging the image is kept, clamped.
C17_Witness ==
    /\ pc = "dnn_done"
    /\ Len(detections) = 2
    /\ detections[1] = [confidence |-> 30, box |-> <<1, 1, 3, 3>>]
    /\ detections[2] = [confidence |-> 40, box |-> <<-1, -1, 3, 3>>]
    /\ faces = <<<<0, 0, 2, 2, 40>>>>
    /\ face_bbox = <<0, 0, 2, 2>>

(***************************************************************************)
(* Properties of the face selector and of the crop geometry                *)
(***************************************************************************)
CropDone == pc = "crop_done" /\ face_bbox # None /\ crop.bbox # None

\* C1: for every image, every face box the selector returns and every
\* padding, the crop rectangle is non-empty and inside the image:
\* 0 <= x1 < x2 <= imgW and 0 <= y1 < y2 <= imgH.
C1_CropInsideImage ==
    (pc = "crop_done" /\ face_bbox # None) =>
        /\ crop.bbox # None
        /\ LET x1 == crop.bbox[1]
               y1 == crop.bbox[2]
               x2 == crop.bbox[1] + crop.bbox[3]
               y2 == crop.bbox[2] + crop.bbox[4]
           IN  /\ 0 <= x1 /\ x1 < x2 /\ x2 <= img[1]
               /\ 0 <= y1 /\ y1 < y2 /\ y2 <= img[2]
               /\ crop.width = x2 - x1 /\ crop.height = y2 - y1

\* A face in the bottom-right corner whose padded square overhangs two edges.
C1_Witness ==
    /\ CropDone
    /\ img = <<5, 4>>
    /\ face_bbox = <<3, 2, 2, 2>>
    /\ padding_percent = 100
    /\ crop.bbox[1] + crop.bbox[3] = 5

\* C2: the crop region is always square (width = height), also when the
\* image is smaller than the padded size in one dimension.
C2_CropSquare ==
    (pc = "crop_done" /\ face_bbox # None) => crop.width = crop.height

\* C3: when the padded square fits inside the image the crop is exactly
\* size x size, size = floor(max(w,h) * (1 + padding/100)), with top-left
\* corner (floor(centerX - floor(size/2)), floor(centerY - floor(size/2)));
\* for the 100x100 image, box (40,40,20,20), padding 30 it is (37,37,26,26).
C3_ExactCropWhenFits ==
    (pc = "crop_done" /\ face_bbox # None) =>
        LET x == face_bbox[1]
            y == face_bbox[2]
            w == face_bbox[3]
            h == face_bbox[4]
            maxDim == IF w >= h THEN w ELSE h
            size == (maxDim * (100 + padding_percent)) \div 100
            left2 == 2 * x + w - 2 * (size \div 2)
            top2 == 2 * y + h - 2 * (size \div 2)
            left == left2 \div 2
            top == top2 \div 2
            fits == /\ left2 >= 0 /\ top2 >= 0
                    /\ left + size <= img[1] /\ top + size <= img[2]
        IN  /\ fits => crop.bbox = <<left, top, size, size>>
            /\ (img = <<100, 100>> /\ face_bbox = <<40, 40, 20, 20>>
                /\ padding_percent = 30) => crop.bbox = <<37, 37, 26, 26>>

\* The worked example has been cropped.
C3_Witness ==
    /\ CropDone
    /\ img = <<100, 100>>
    /\ face_bbox = <<40, 40, 20, 20>>
    /\ padding_percent = 30
    /\ crop.bbox = <<37, 37, 26, 26>>

\* C4: the selector returns the survivor of largest width*height whatever
\* the confidences, and among survivors of equal largest area the first in
\* detector order; it returns None exactly when there is no survivor.
C4_LargestAreaFirstWins ==
    pc = "select_done" =>
        IF faces = <<>> THEN face_bbox = None
        ELSE \E k \in 1..Len(faces) :
                /\ face_bbox = SubSeq(faces[k], 1, 4)
                /\ \A j \in 1..Len(faces) :
                      faces[j][3] * faces[j][4] <= faces[k][3] * faces[k][4]
                /\ \A j \in 1..(k - 1) :
                      faces[j][3] * faces[j][4] < faces[k][3] * faces[k][4]

\* A small confident face, then a larger less confident one, then another box
\* of that same larger area: the second is returned.
C4_Witness ==
    /\ pc = "select_done"
    /\ Len(faces) = 3
    /\ Len(faces[1]) = 5
    /\ Area(faces[1]) < Area(faces[2])
    /\ faces[1][5] > faces[2][5]
    /\ Area(faces[3]) = Area(faces[2])
    /\ SubSeq(faces[3], 1, 4) # SubSeq(faces[2], 1, 4)
    /\ face_bbox = SubSeq(faces[2], 1, 4)

\* C5: with no surviving detection, an unavailable detector or a failing
\* detection routine the whole image comes back with its width and height
\* unchanged, and the returned bbox is None exactly when the full image
\* rather than a crop is returned.
C5_FullImageFallback ==
    pc = "crop_done" =>
        /\ (face_detector = "None" \/ detector_env.detect_raises \/ face_bbox = None)
              => /\ crop.full_image
                 /\ crop.width = img[1] /\ crop.height = img[2]
        /\ (crop.bbox = None) <=> crop.full_image
        /\ face_bbox # None => ~crop.full_image

\* A detection was offered to a working DNN detector and did not survive.
C5_Witness ==
    /\ pc = "crop_done"
    /\ face_detector = "net"
    /\ detections # <<>>
    /\ face_bbox = None
    /\ crop.full_image
    /\ crop.bbox = None

\* C16: on each axis the crop extent is exactly min(size, image extent),
\* size being the side of the padded square as line 229 computes it:
\* a padded square that overhangs an edge is slid back into the image, not
\* shrunk, and it spans the whole axis when size exceeds the image extent.
C16_SlidNotShrunk ==
    (pc = "crop_done" /\ face_bbox # None) =>
        LET w == face_bbox[3]
            h == face_bbox[4]
            maxDim == IF w >= h THEN w ELSE h
            size == CropSize(maxDim, padding_percent)
        IN  /\ crop.bbox[3] = (IF size <= img[1] THEN size ELSE img[1])
            /\ crop.bbox[4] = (IF size <= img[2] THEN size ELSE img[2])
            /\ size > img[1] => crop.bbox[1] = 0
            /\ size > img[2] => crop.bbox[2] = 0

\* A 2x2 face in the bottom-right corner of a 5x5 image, padding 50: the
\* 3x3 square is slid to (2, 2).
C16_Witness ==
    /\ CropDone
    /\ img = <<5, 5>>
    /\ face_bbox = <<3, 3, 2, 2>>
    /\ padding_percent = 50
    /\ crop.bbox = <<2, 2, 3, 3>>

\* C29: for every image, every face box inside it and every padding >= 0
\* the crop rectangle contains the whole face box:
\* x1 <= x, y1 <= y, x2 >= x + w and y2 >= y + h.
C29_CropContainsFace ==
    CropDone =>
        /\ padding_percent >= 0
        /\ crop.bbox[1] <= face_bbox[1]
        /\ crop.bbox[2] <= face_bbox[2]
        /\ crop.bbox[1] + crop.bbox[3] >= face_bbox[1] + face_bbox[3]
        /\ crop.bbox[2] + crop.bbox[4] >= face_bbox[2] + face_bbox[4]

\* A 3x1 face at (1, 2) of a 5x5 image, padding 0: the half-size 1 leaves
\* the clipped square 2 wide, and the final update restores columns 1..4.
C29_Witness ==
    /\ CropDone
    /\ img = <<5, 5>>
    /\ face_bbox = <<1, 2, 3, 1>>
    /\ padding_percent = 0
    /\ crop.bbox[1] = 1
    /\ crop.bbox[3] = 3

(***************************************************************************)
(* preprocessing.py: preprocess_frames and preprocess_batch                *)
(* A frame path is an opaque identifier; the k-th path of a list is k.     *)
(* max_frames is None or <<m>>.                                            *)
(***************************************************************************)
MaxFrameCount == 8      \* frame lists hold 0..MaxFrameCount paths
MaxMaxFrames == 4       \* max_frames ranges over None and 1..MaxMaxFrames

FramePaths(n) == [k \in 1..n |-> k]

\* seq[::step]
EveryNth(seq, step) ==
    [k \in 1..((Len(seq) + step - 1) \div step) |-> seq[(k - 1) * step + 1]]

\* seq[:m]
Truncate(seq, m) == SubSeq(seq, 1, Min(Len(seq), m))

\* Variant: the strided list is not truncated to max_frames.
SampleFramesUntruncated(paths, mf) ==
    IF mf # None /\ mf[1] # 0 /\ Len(paths) > mf[1]
      THEN EveryNth(paths, Len(paths) \div mf[1])
      ELSE paths

\* Lines 145-150: frame_paths after "Limit number of frames if specified".
SampleFrames(paths, mf) ==
    IF mf # None /\ mf[1] # 0 /\ Len(paths) > mf[1]
      THEN LET step == Len(paths) \div mf[1]
           IN  Truncate(EveryNth(paths, step), mf[1])
      ELSE paths

\* preprocess_batch: invalid images are skipped; no valid image raises.
preprocess_batch(image_paths, bad) ==
    LET Valid(path) == path \notin bad
        valid_paths == SelectSeq(image_paths, Valid)
    IN  IF image_paths = <<>>
          THEN [raised |-> TRUE, message |-> "Empty image paths list",
                batch_tensor |-> None, valid_paths |-> <<>>]
        ELSE IF valid_paths = <<>>
          THEN [raised |-> TRUE, message |-> "No valid images found in batch",
                batch_tensor |-> None, valid_paths |-> <<>>]
        ELSE [raised |-> FALSE, message |-> "",
              batch_tensor |-> <<Len(valid_paths)>>, valid_paths |-> valid_paths]

preprocess_frames(paths, mf, bad) ==
    IF paths = <<>>
      THEN [raised |-> FALSE, message |-> "", batch_tensor |-> None,
            valid_paths |-> <<>>]
      ELSE preprocess_batch(SampleFrames(paths, mf), bad)

\* The worked examples: 100 frames with max 30 and with no limit, 10 with max 30.
ExampleFrameInputs == {<<100, <<30>>>>, <<100, None>>, <<10, <<30>>>>}

InitFrames ==
    /\ pc = "frames_call"
    /\ \/ \E n \in 0..MaxFrameCount :
             /\ frame_paths = FramePaths(n)
             /\ max_frames \in {None} \cup {<<m>> : m \in 1..MaxMaxFrames}
             /\ bad_paths \in SUBSET (1..n)
       \/ \E ex \in ExampleFrameInputs :
             /\ frame_paths = FramePaths(ex[1])
             /\ max_frames = ex[2]
             /\ bad_paths = {}
    /\ sampled = <<>>
    /\ frame_index = 0
    /\ batch = Idle
    /\ FreshDetector(PreprocessScenarios)
    /\ OneCaller("line_141", "preprocess_image")
    /\ FaceArgsIdle
    /\ ScoresIdle
    /\ ServiceIdle

\* Lines 141-152 of preprocess_frames: no frames, and (None, []) is
\* returned; else the frames are sampled and preprocess_batch starts its
\* loop over them (line 106).
PreprocessFrames ==
    /\ pc = "frames_call"
    /\ At(Caller, "line_141")
    /\ IF frame_paths = <<>>
         THEN /\ sampled' = frame_paths
              /\ batch' = preprocess_frames(frame_paths, max_frames, bad_paths)
              /\ pc' = "frames_done"
              /\ thread_pc' = [thread_pc EXCEPT ![Caller] = "returned"]
              /\ UNCHANGED frame_index
         ELSE /\ sampled' = SampleFrames(frame_paths, max_frames)
              /\ frame_index' = 1
              /\ thread_pc' = [thread_pc EXCEPT ![Caller] = "line_108"]
              /\ UNCHANGED <<pc, batch>>
    /\ UNCHANGED <<frame_paths, max_frames, bad_paths, detectorVars, faceVars,
                   scoreVars, serviceVars, thread_local, files, init_entries,
                   downloads, loads>>

\* preprocess_image for the frame the loop is at (preprocessing.py 54-70):
\* a missing file raises at line 55 and a file that is no image in
\* Image.open, and the frame is done with; an image that opens is handed to
\* detect_and_crop_face, which calls get_face_detector (line 194).
OpenFrame ==
    /\ At(Caller, "line_108")
    /\ frame_index <= Len(sampled)
    /\ IF sampled[frame_index] \in bad_paths
         THEN /\ frame_index' = frame_index + 1
              /\ UNCHANGED <<thread_pc, thread_local>>
         ELSE /\ thread_pc' = [thread_pc EXCEPT ![Caller] = "line_49"]
              /\ thread_local' = [thread_local EXCEPT
                                     ![Caller] = EnterCall("preprocess_image")]
              /\ UNCHANGED frame_index
    /\ UNCHANGED <<pc, frame_paths, max_frames, bad_paths, sampled, batch,
                   detectorVars, faceVars, scoreVars, serviceVars, files,
                   init_entries, downloads, loads>>

\* detect_and_crop_face returns to preprocess_image, with a crop or the full
\* image, the frame is transformed (lines 76-81) and the loop goes on.
FrameDone ==
    /\ InDetection(Caller)
    /\ thread_local[Caller].caller = "preprocess_image"
    /\ thread_local' = [thread_local EXCEPT
                           ![Caller].outcome = DetectionOutcome(Caller)]
    /\ thread_pc' = [thread_pc EXCEPT ![Caller] = "line_108"]
    /\ frame_index' = frame_index + 1
    /\ UNCHANGED <<pc, frame_paths, max_frames, bad_paths, sampled, batch,
                   detectorVars, faceVars, scoreVars, serviceVars, files,
                   init_entries, downloads, loads>>

\* Lines 115-120 and 152: the loop is over; the batch is stacked and
\* returned, or 'No valid images found in batch' is raised.
PreprocessReturn ==
    /\ pc = "frames_call"
    /\ At(Caller, "line_108")
    /\ frame_index > Len(sampled)
    /\ batch' = preprocess_frames(frame_paths, max_frames, bad_paths)
    /\ pc' = "frames_done"
    /\ thread_pc' = [thread_pc EXCEPT ![Caller] = "returned"]
    /\ UNCHANGED <<frame_paths, max_frames, bad_paths, sampled, frame_index,
                   detectorVars, faceVars, scoreVars, serviceVars, thread_local,
                   files, init_entries, downloads, loads>>

NextFrames ==
    \/ PreprocessFrames
    \/ OpenFrame
    \/ DetectorStep(Caller)
    \/ FrameDone
    \/ PreprocessReturn

SpecFrames == InitFrames /\ [][NextFrames]_vars

\* C6: the sampler returns its input unchanged when max_frames is None or
\* count <= max_frames; otherwise, with stride = floor(count / max_frames),
\* it returns exactly max_frames elements, the k-th (from 0) being the input
\* element at index k * stride.  100 frames, max 30 give 30; 10 frames all 10.
C6_FrameSampling ==
    pc = "frames_done" =>
        LET count == Len(frame_paths)
        IN  /\ IF max_frames = None \/ count <= max_frames[1]
                 THEN sampled = frame_paths
                 ELSE LET stride == count \div max_frames[1]
                      IN  /\ Len(sampled) = max_frames[1]
                          /\ \A k \in 0..(max_frames[1] - 1) :
                                sampled[k + 1] = frame_paths[k * stride + 1]
            /\ (count = 100 /\ max_frames = <<30>>) => Len(sampled) = 30
            /\ (count = 100 /\ max_frames = None) => Len(sampled) = 100
            /\ (count = 10 /\ max_frames = <<30>>) => Len(sampled) = 10
            /\ (bad_paths = {} /\ count > 0) =>
                  ~batch.raised /\ batch.valid_paths = sampled

\* 100 frames sampled down to 30 with stride 3: frames 1, 4, ..., 88.
C6_Witness ==
    /\ pc = "frames_done"
    /\ Len(frame_paths) = 100
    /\ max_frames = <<30>>
    /\ Len(sampled) = 30
    /\ sampled[1] = 1
    /\ sampled[30] = 88
    /\ batch.valid_paths = sampled

\* C18: when count > max_frames the kept frames cover the whole sequence
\* evenly: consecutive kept frames are exactly stride apart and fewer than
\* stride frames remain unsampled after the last kept frame.
C18_EvenCoverage ==
    (pc = "frames_done" /\ max_frames # None) =>
        (Len(frame_paths) > max_frames[1] =>
            LET count == Len(frame_paths)
                stride == count \div max_frames[1]
                last == sampled[Len(sampled)]
            IN  /\ \A k \in 1..(Len(sampled) - 1) :
                      sampled[k + 1] - sampled[k] = stride
                /\ count - last < stride)

(***************************************************************************)
(* IEEE 754 binary64 arithmetic on non-negative numbers                    *)
(* A double is held as [sig, exp], its value sig * 2^exp.  A significand   *)
(* has up to 53 binary digits, more than an integer here can hold, so a    *)
(* natural number is held as its digits to the base 2^15, the least        *)
(* significant first.  Every operation computes the exact result and       *)
(* rounds it to the nearest double, ties to the even significand, as the   *)
(* processor does.  A significand has no leading zeros: that of zero is    *)
(* the empty tuple.                                                        *)
(***************************************************************************)
\* The base of the digits: the product of two digits is below 2^31.
Limb == 2^15

\* Digit j of x, zero beyond its length.
Digit(x, j) == IF j >= 1 /\ j <= Len(x) THEN x[j] ELSE 0

Zeros(k) == [j \in 1..k |-> 0]

\* The function f on 1..n as the tuple of its values.
Tuple(f) == <<>> \o f

\* The digits of an integer below 2^31.
LimbsOf(n) == <<n % Limb, (n \div Limb) % Limb, n \div (Limb * Limb)>>

\* The digits without leading zeros.
TrimLimbs(x) ==
    LET used == {j \in 1..Len(x) : x[j] # 0}
    IN  IF used = {} THEN <<>>
        ELSE SubSeq(x, 1, CHOOSE j \in used : \A k \in used : k <= j)

\* The number of binary digits of a digit, and of x without leading zeros.
Width(n) == CHOOSE w \in 0..30 : 2^w > n /\ (w = 0 \/ 2^(w - 1) <= n)

LimbBits == Width(Limb - 1)

BitLengthTrimmed(t) ==
    IF t = <<>> THEN 0 ELSE LimbBits * (Len(t) - 1) + Width(t[Len(t)])

BitLength(x) == BitLengthTrimmed(TrimLimbs(x))

\* x + y.  A carry enters digit j when some digit below it overflows and
\* every digit in between is full.
AddLimbs(x, y) ==
    LET n == Max(Len(x), Len(y)) + 1
        Both(j) == Digit(x, j) + Digit(y, j)
        Carry(j) == \E k \in 1..(j - 1) :
                        /\ Both(k) >= Limb
                        /\ \A m \in (k + 1)..(j - 1) : Both(m) = Limb - 1
    IN  IF x = <<>> THEN y
        ELSE IF y = <<>> THEN x
        ELSE Tuple([j \in 1..n |-> (Both(j) + (IF Carry(j) THEN 1 ELSE 0)) % Limb])

\* x - y for x >= y.  Digit j lends when some digit below it is too small
\* and every digit in between is equal.
SubLimbs(x, y) ==
    LET n == Max(Len(x), Len(y))
        Borrow(j) == \E k \in 1..(j - 1) :
                         /\ Digit(x, k) < Digit(y, k)
                         /\ \A m \in (k + 1)..(j - 1) : Digit(x, m) = Digit(y, m)
    IN  Tuple([j \in 1..n |->
                  (Limb + Digit(x, j) - Digit(y, j)
                       - (IF Borrow(j) THEN 1 ELSE 0)) % Limb])

LessLimbs(x, y) ==
    \E j \in 1..Max(Len(x), Len(y)) :
        /\ Digit(x, j) < Digit(y, j)
        /\ \A m \in (j + 1)..Max(Len(x), Len(y)) : Digit(x, m) = Digit(y, m)

\* f[a] + ... + f[b], a few small numbers, summed by halves.
RECURSIVE TotalFrom(_, _, _)
TotalFrom(f, a, b) ==
    IF a > b THEN 0
    ELSE IF a = b THEN f[a]
    ELSE TotalFrom(f, a, (a + b) \div 2) + TotalFrom(f, (a + b) \div 2 + 1, b)

Total(f) == TotalFrom(f, 1, Len(f))

\* x * y.  The products of digits x[i] * y[k + 1 - i] make column k; each is
\* split into its low digit, which stays in the column, and its high
\* digit, which goes to the next, and what a column then holds beyond one
\* digit goes to the next as well.
MulLimbs(x, y) ==
    LET n == Len(x) + Len(y)
        Product(k, j) == Digit(x, j) * Digit(y, k + 1 - j)
        column == Tuple([k \in 1..n |->
                      Total([j \in 1..Len(x) |-> Product(k, j) % Limb])
                      + Total([j \in 1..Len(x) |-> Product(k - 1, j) \div Limb])])
    IN  AddLimbs(Tuple([k \in 1..n |-> column[k] % Limb]),
                 Tuple([k \in 1..(n + 1) |-> IF k = 1 THEN 0
                                             ELSE column[k - 1] \div Limb]))

\* Limb^k modulo d.
RECURSIVE PowerMod(_, _)
PowerMod(k, d) ==
    IF k = 0 THEN 1 % d
    ELSE IF k = 1 THEN Limb % d
    ELSE (PowerMod(k \div 2, d) * PowerMod(k - k \div 2, d)) % d

\* x divided by an integer d below 2^15.  What the digits from j on leave
\* as remainder is carried into digit j - 1.
DivLimbs(x, d) ==
    LET n == Len(x)
        rem == Tuple([j \in 1..(n + 1) |->
                   Total([k \in 1..(n + 1 - j) |->
                       ((x[j + k - 1] % d) * PowerMod(k - 1, d)) % d]) % d])
    IN  [quot |-> Tuple([j \in 1..n |-> (rem[j + 1] * Limb + x[j]) \div d]),
         rem |-> rem[1]]

\* x * 2^k, and x / 2^k with a flag that says whether digits were lost.
ShiftLeft(x, k) ==
    LET low == 2^(LimbBits - (k % LimbBits))
        up == 2^(k % LimbBits)
    IN  Zeros(k \div LimbBits)
            \o [j \in 1..(Len(x) + 1) |->
                   (Digit(x, j) % low) * up + (Digit(x, j - 1) \div low)]

ShiftRight(x, k) ==
    LET whole == k \div LimbBits
        down == 2^(k % LimbBits)
        up == 2^(LimbBits - (k % LimbBits))
    IN  [quot |-> Tuple([j \in 1..(Len(x) - whole) |->
                            (Digit(x, j + whole) \div down)
                                + (Digit(x, j + whole + 1) % down) * up]),
         inexact |-> \/ \E j \in 1..whole : Digit(x, j) # 0
                     \/ Digit(x, whole + 1) % down # 0]

\* s holds the 54 leading digits of a number: the nearest number of 53
\* digits, a tie going to the even one.  inexact says that more digits
\* follow those of s.
RoundHalf(s, inexact) ==
    IF s.quot[1] % 2 = 1 /\ (inexact \/ s.inexact \/ (s.quot[1] \div 2) % 2 = 1)
      THEN AddLimbs(ShiftRight(s.quot, 1).quot, <<1>>)
      ELSE ShiftRight(s.quot, 1).quot

\* sig * 2^exp rounded to a double, extra being the number of digits sig
\* has beyond 53.
RoundBy(sig, exp, inexact, extra) ==
    IF extra <= 0 THEN [sig |-> TrimLimbs(sig), exp |-> exp]
    ELSE [sig |-> TrimLimbs(RoundHalf(ShiftRight(sig, extra - 1), inexact)),
          exp |-> exp + extra]

\* The double nearest sig * 2^exp, or nearest a number just above it if
\* inexact says that digits were dropped below sig.
RoundToDouble(sig, exp, inexact) ==
    IF sig = <<>> THEN [sig |-> sig, exp |-> exp]
    ELSE RoundBy(sig, exp, inexact, BitLength(sig) - 53)

\* The digits of x with the unit 2^e, e <= x.exp.
Aligned(x, e) == ShiftLeft(x.sig, x.exp - e)

DoubleLess(x, y) ==
    IF x.sig = <<>> \/ y.sig = <<>> THEN y.sig # <<>>
    ELSE LessLimbs(Aligned(x, Min(x.exp, y.exp)), Aligned(y, Min(x.exp, y.exp)))

DoublePlus(x, y) ==
    IF x.sig = <<>> THEN y
    ELSE IF y.sig = <<>> THEN x
    ELSE RoundToDouble(AddLimbs(Aligned(x, Min(x.exp, y.exp)),
                                Aligned(y, Min(x.exp, y.exp))),
                       Min(x.exp, y.exp), FALSE)

\* x - y for x >= y.
DoubleMinus(x, y) ==
    IF y.sig = <<>> THEN x
    ELSE RoundToDouble(SubLimbs(Aligned(x, Min(x.exp, y.exp)),
                                Aligned(y, Min(x.exp, y.exp))),
                       Min(x.exp, y.exp), FALSE)

DoubleTimes(x, y) ==
    IF x.sig = <<>> \/ y.sig = <<>> THEN [sig |-> <<>>, exp |-> 0]
    ELSE RoundToDouble(MulLimbs(x.sig, y.sig), x.exp + y.exp, FALSE)

\* x / d for an integer d below 2^15.  The quotient is taken with 75
\* binary digits below the unit of x, enough to round it.
RoundQuotient(q, exp) ==
    IF q.rem = 0 THEN RoundToDouble(q.quot, exp, FALSE)
    ELSE RoundToDouble(q.quot, exp, TRUE)

DoubleOver(x, d) ==
    IF x.sig = <<>> THEN x
    ELSE RoundQuotient(DivLimbs(ShiftLeft(x.sig, 75), d), x.exp - 75)

\* float(n) for an integer n, and the double nearest a / b.
DoubleOf(n) == [sig |-> TrimLimbs(LimbsOf(n)), exp |-> 0]
DoubleOfRatio(a, b) == DoubleOver(DoubleOf(a), b)

\* The doubles 1.0, 0.5, 10.0, 100.0 and 90 / 100.
DoubleOne == DoubleOf(1)
DoubleHalf == DoubleOfRatio(1, 2)
DoubleTen == DoubleOf(10)
DoubleHundred == DoubleOf(100)
DoubleQuantile == DoubleOfRatio(90, 100)

\* math.floor(x) for a double below 2^15.
DoubleFloor(x) ==
    IF x.exp >= 0 THEN Digit(ShiftLeft(x.sig, x.exp), 1)
    ELSE Digit(ShiftRight(x.sig, 0 - x.exp).quot, 1)

\* acc + ds[from] + ... + ds[to], added one by one from the left.
RECURSIVE AddFromLeft(_, _, _, _)
AddFromLeft(acc, ds, from, to) ==
    IF from > to THEN acc
    ELSE DoublePlus(AddFromLeft(acc, ds, from, to - 1), ds[to])

\* ds[j] + ds[j + 8] + ... over the first blocks of eight.
RECURSIVE LaneSum(_, _, _)
LaneSum(ds, j, blocks) ==
    IF blocks = 0 THEN DoubleOf(0)
    ELSE DoublePlus(LaneSum(ds, j, blocks - 1), ds[8 * (blocks - 1) + j])

\* 8 to 128 numbers: eight running sums over the whole blocks of eight,
\* added pairwise, then the numbers left over one by one.
BlockSum(ds, r) ==
    AddFromLeft(DoublePlus(DoublePlus(DoublePlus(r[1], r[2]),
                                      DoublePlus(r[3], r[4])),
                           DoublePlus(DoublePlus(r[5], r[6]),
                                      DoublePlus(r[7], r[8]))),
                ds, 8 * (Len(ds) \div 8) + 1, Len(ds))

\* The sum as np.mean takes it (numpy's pairwise summation): fewer than 8
\* numbers are added from the left, up to 128 by blocks of eight, more by
\* halves cut at a multiple of 8.
RECURSIVE DoubleSum(_)
DoubleSum(ds) ==
    IF Len(ds) < 8 THEN AddFromLeft(DoubleOf(0), ds, 1, Len(ds))
    ELSE IF Len(ds) <= 128
      THEN BlockSum(ds, Tuple([j \in 1..8 |-> LaneSum(ds, j, Len(ds) \div 8)]))
    ELSE DoublePlus(
             DoubleSum(SubSeq(ds, 1, 8 * (Len(ds) \div 16))),
             DoubleSum(SubSeq(ds, 8 * (Len(ds) \div 16) + 1, Len(ds))))

\* A largest of the doubles ds.
DoubleMax(ds) ==
    ds[CHOOSE j \in 1..Len(ds) : \A k \in 1..Len(ds) : ~DoubleLess(ds[j], ds[k])]

\* The doubles in ascending order: ds[j] comes after the doubles below it
\* and after the equal ones before it.
SortedDoubles(ds) ==
    LET Before(k, j) == DoubleLess(ds[k], ds[j])
                            \/ (k < j /\ ~DoubleLess(ds[j], ds[k]))
        Place(j) == 1 + Cardinality({k \in 1..Len(ds) : Before(k, j)})
    IN  Tuple([p \in 1..Len(ds) |-> ds[CHOOSE j \in 1..Len(ds) : Place(j) = p]])

(***************************************************************************)
(* app.py: extract_fake_probability                                        *)
(* A label is a sequence of characters; a score is a number of             *)
(* ten-thousandths.                                                        *)
(* A classifier result is a sequence of [label, score] entries.            *)
(***************************************************************************)
MaxLabels == 3          \* entries in one classifier result

One == 10000            \* the score 1.0 in ten-thousandths
Half == 5000            \* the score 0.5 in ten-thousandths
Tenth == One \div 10    \* the score 0.1

UpperCase == <<"A", "B", "C", "D", "E", "F", "G", "H", "I", "J", "K", "L", "M",
               "N", "O", "P", "Q", "R", "S", "T", "U", "V", "W", "X", "Y", "Z">>
LowerCase == <<"a", "b", "c", "d", "e", "f", "g", "h", "i", "j", "k", "l", "m",
               "n", "o", "p", "q", "r", "s", "t", "u", "v", "w", "x", "y", "z">>

\* A character outside ASCII is held by the name of its code point.  The
\* capital letters of Latin-1, U+00C0..U+00DE without the sign U+00D7, and
\* the small letters str.lower() gives for them.
Latin1Upper == <<"U+00C0", "U+00C1", "U+00C2", "U+00C3", "U+00C4", "U+00C5",
                 "U+00C6", "U+00C7", "U+00C8", "U+00C9", "U+00CA", "U+00CB",
                 "U+00CC", "U+00CD", "U+00CE", "U+00CF", "U+00D0", "U+00D1",
                 "U+00D2", "U+00D3", "U+00D4", "U+00D5", "U+00D6", "U+00D8",
                 "U+00D9", "U+00DA", "U+00DB", "U+00DC", "U+00DD", "U+00DE">>
Latin1Lower == <<"U+00E0", "U+00E1", "U+00E2", "U+00E3", "U+00E4", "U+00E5",
                 "U+00E6", "U+00E7", "U+00E8", "U+00E9", "U+00EA", "U+00EB",
                 "U+00EC", "U+00ED", "U+00EE", "U+00EF", "U+00F0", "U+00F1",
                 "U+00F2", "U+00F3", "U+00F4", "U+00F5", "U+00F6", "U+00F8",
                 "U+00F9", "U+00FA", "U+00FB", "U+00FC", "U+00FD", "U+00FE">>

KelvinSign == "U+212A"              \* lowers to the ASCII letter k
AngstromSign == "U+212B"            \* lowers to U+00E5
CapitalIWithDot == "U+0130"         \* lowers to two characters: i, U+0307
CombiningDotAbove == "U+0307"

\* A label is made of ASCII characters, Latin-1 letters and the characters
\* above; U+212A and U+0130 are the only characters of Unicode that
\* str.lower() takes into ASCII from outside it, U+0130 the only one it
\* takes to another length.
Position(c, seq) == CHOOSE k \in 1..Len(seq) : seq[k] = c
IsIn(c, seq) == \E k \in 1..Len(seq) : seq[k] = c

\* c.lower() for one character c, as the string it yields.
LowerChar(c) ==
    IF IsIn(c, UpperCase) THEN <<LowerCase[Position(c, UpperCase)]>>
    ELSE IF IsIn(c, Latin1Upper) THEN <<Latin1Lower[Position(c, Latin1Upper)]>>
    ELSE IF c = KelvinSign THEN <<"k">>
    ELSE IF c = AngstromSign THEN <<"U+00E5">>
    ELSE IF c = CapitalIWithDot THEN <<"i", CombiningDotAbove>>
    ELSE <<c>>

\* label.lower(): the characters lowered one by one, in order.
RECURSIVE Lower(_)
Lower(label) ==
    IF label = <<>> THEN <<>>
    ELSE LowerChar(Head(label)) \o Lower(Tail(label))

\* sub in label
Contains(sub, label) ==
    \E k \in 0..(Len(label) - Len(sub)) : SubSeq(label, k + 1, k + Len(sub)) = sub

Str_fake == <<"f", "a", "k", "e">>
Str_deepfake == <<"d", "e", "e", "p", "f", "a", "k", "e">>
Str_synthetic == <<"s", "y", "n", "t", "h", "e", "t", "i", "c">>
Str_real == <<"r", "e", "a", "l">>
Str_authentic == <<"a", "u", "t", "h", "e", "n", "t", "i", "c">>

\* 'fake' in label or 'deepfake' in label or 'synthetic' in label
LooksFake(label) ==
    Contains(Str_fake, label) \/ Contains(Str_deepfake, label)
        \/ Contains(Str_synthetic, label)

\* 'real' in label or 'authentic' in label
LooksReal(label) == Contains(Str_real, label) \/ Contains(Str_authentic, label)

\* A result that is not a list (a dict, None) is held as a one-element tuple
\* whose element carries the field not_a_list; an entry that is not a dict
\* (item.get raises AttributeError) as a record with the field not_a_dict.
NotAList == <<[not_a_list |-> TRUE]>>
NotADict == [not_a_dict |-> TRUE]

\* isinstance(result, list)
IsList(res) == ~(Len(res) = 1 /\ "not_a_list" \in DOMAIN res[1])

IsDict(item) == "not_a_dict" \notin DOMAIN item

\* item.get(key, default)
Get(item, key, default) == IF key \in DOMAIN item THEN item[key] ELSE default

\* Variant: a 'real' entry's score returned as it is.
RECURSIVE ExtractLoopRealUninverted(_, _)
ExtractLoopRealUninverted(res, k) ==
    IF k > Len(res) THEN [outcome |-> "exhausted", value |-> 0]
    ELSE IF ~IsDict(res[k]) THEN [outcome |-> "raised", value |-> 0]
    ELSE LET label == Lower(Get(res[k], "label", <<>>))
         IN  IF LooksFake(label)
               THEN [outcome |-> "returned", value |-> Get(res[k], "score", 0)]
             ELSE IF LooksReal(label)
               THEN [outcome |-> "returned", value |-> Get(res[k], "score", One)]
             ELSE ExtractLoopRealUninverted(res, k + 1)

\* The for loop of lines 100-106 from entry k on: it returns a value, raises,
\* or runs off the end of the list.
RECURSIVE ExtractLoop(_, _)
ExtractLoop(res, k) ==
    IF k > Len(res)
      THEN [outcome |-> "exhausted", value |-> 0, inverted |-> FALSE]
    ELSE IF ~IsDict(res[k])
      THEN [outcome |-> "raised", value |-> 0, inverted |-> FALSE]
    ELSE LET label == Lower(Get(res[k], "label", <<>>))
         IN  IF LooksFake(label)
               THEN [outcome |-> "returned", value |-> Get(res[k], "score", 0),
                     inverted |-> FALSE]
             ELSE IF LooksReal(label)
               THEN [outcome |-> "returned",
                     value |-> One - Get(res[k], "score", One),
                     inverted |-> TRUE]
             ELSE ExtractLoop(res, k + 1)

\* Variant: with no clear label the answer is the uncertain 0.5.
extract_fake_probability_uncertain(res) ==
    IF ~IsList(res) THEN Half
    ELSE LET found == ExtractLoop(res, 1)
         IN  IF found.outcome = "returned" THEN found.value
             ELSE Half

\* Lines 96-128.  An exception inside the try block ends in the except
\* clause, which returns 0.5.
extract_fake_probability(res) ==
    IF ~IsList(res) THEN Half
    ELSE LET found == ExtractLoop(res, 1)
         IN  IF found.outcome = "returned" THEN found.value
             ELSE IF found.outcome = "raised" THEN Half
             ELSE IF Len(res) > 0
               THEN LET top_result == res[1]
                        label == Lower(Get(top_result, "label", <<>>))
                        score == Get(top_result, "score", Half)
                    IN  IF LooksFake(label) THEN score
                        ELSE IF LooksReal(label) THEN One - score
                        ELSE score
             ELSE Half

\* The value comes from the subtraction 1.0 - score of line 106 or 122.
extract_inverted(res) ==
    /\ IsList(res)
    /\ LET found == ExtractLoop(res, 1)
       IN  \/ found.outcome = "returned" /\ found.inverted
           \/ /\ found.outcome = "exhausted"
              /\ Len(res) > 0
              /\ LET label == Lower(Get(res[1], "label", <<>>))
                 IN  ~LooksFake(label) /\ LooksReal(label)

\* The double the call returns: the score as the classifier gave it, the
\* double nearest score / One, or 1.0 minus that double.
extract_fake_probability_double(res) ==
    LET p == extract_fake_probability(res)
    IN  IF extract_inverted(res)
          THEN DoubleMinus(DoubleOne, DoubleOfRatio(One - p, One))
          ELSE DoubleOfRatio(p, One)

Label_Fake == <<"F", "a", "k", "e">>
Label_Real == <<"R", "e", "a", "l">>
\* 'FAKE' written with the Kelvin sign for its K.
Label_KelvinFake == <<"F", "A", KelvinSign, "E">>
\* 'AUTHENTIC' written with the dotted capital I, and the French 'REEL'
\* with E acute.
Label_DottedAuthentic ==
    <<"A", "U", "T", "H", "E", "N", "T", CapitalIWithDot, "C">>
Label_Reel == <<"R", "U+00C9", "E", "L">>
LabelPool ==
    {Label_Fake, Label_Real, Label_KelvinFake, Label_Reel,
     <<"R", "E", "A", "L">>,
     <<"D", "e", "e", "p", "F", "a", "k", "e">>,
     <<"S", "y", "n", "t", "h", "e", "t", "i", "c">>,
     <<"a", "u", "t", "h", "e", "n", "t", "i", "c">>,
     <<"c", "a", "t">>}
ScoreValues == {2 * Tenth, 3 * Tenth, 8 * Tenth, One}
LabelScores == [label : LabelPool, score : ScoreValues]

InitExtract ==
    /\ pc = "extract_call"
    /\ result \in SeqsUpTo(LabelScores, MaxLabels)
    /\ fake_prob = Idle
    /\ results = <<>>
    /\ media_type = "UNKNOWN"
    /\ locals = Idle
    /\ scores = Idle
    /\ FaceIdle
    /\ FramesIdle
    /\ RestIdle

ExtractFakeProbability ==
    /\ pc = "extract_call"
    /\ fake_prob' = extract_fake_probability(result)
    /\ pc' = "extract_done"
    /\ UNCHANGED <<result, results, media_type, locals, scores, detectorVars,
                   faceVars, frameVars,
                   restVars>>

NextExtract == ExtractFakeProbability

SpecExtract == InitExtract /\ [][NextExtract]_vars

\* C7: if any entry's label contains 'fake', 'deepfake' or 'synthetic'
\* (case-insensitively), the value returned is the score of such an entry,
\* wherever it sits and whatever 'real'/'authentic' entries precede it.
C7_FakeEntryWins ==
    pc = "extract_done" =>
        ((\E k \in 1..Len(result) : LooksFake(Lower(result[k].label)))
            => \E k \in 1..Len(result) :
                  /\ LooksFake(Lower(result[k].label))
                  /\ fake_prob = result[k].score)

(***************************************************************************)
(* extract_fake_probability on any argument: entries with a key missing,   *)
(* entries that are not dicts, a result that is not a list                 *)
(***************************************************************************)
Label_AuthenticFace ==
    <<"A", "u", "t", "h", "e", "n", "t", "i", "c", "_", "F", "a", "c", "e">>
Label_Cat == <<"c", "a", "t">>
AnyLabels ==
    {Label_Fake, <<"R", "E", "A", "L">>, Label_AuthenticFace, Label_Cat,
     Label_KelvinFake, Label_DottedAuthentic}
AnyScores == {0, 3 * Tenth, One}
MalformedEntries ==
    {NotADict, [label |-> Label_Real], [label |-> Label_Fake],
     [label |-> Label_Cat], [score |-> 3 * Tenth]}
AnyEntries == [label : AnyLabels, score : AnyScores] \cup MalformedEntries

InitExtractAny ==
    /\ pc = "extract_call"
    /\ result \in SeqsUpTo(AnyEntries, MaxLabels) \cup {NotAList}
    /\ fake_prob = Idle
    /\ results = <<>>
    /\ media_type = "UNKNOWN"
    /\ locals = Idle
    /\ scores = Idle
    /\ FaceIdle
    /\ FramesIdle
    /\ RestIdle

SpecExtractAny == InitExtractAny /\ [][NextExtract]_vars

\* Every entry is a dict with a label and a score.
WellFormed(res) ==
    IsList(res) /\ \A k \in 1..Len(res) : DOMAIN res[k] = {"label", "score"}

FakeAt(res, k) == LooksFake(Lower(res[k].label))
RealAt(res, k) == LooksReal(Lower(res[k].label))

\* C19: if no entry's label contains 'fake', 'deepfake' or 'synthetic' but
\* some entry's label contains 'real' or 'authentic' (case-insensitive
\* substring, e.g. 'REAL' or 'Authentic_Face'), the value returned is 1.0
\* minus the score of the first such entry.
C19_RealRule ==
    (pc = "extract_done" /\ WellFormed(result)) =>
        ((/\ \A k \in 1..Len(result) : ~FakeAt(result, k)
          /\ \E k \in 1..Len(result) : RealAt(result, k))
            => \E k \in 1..Len(result) :
                  /\ RealAt(result, k)
                  /\ \A j \in 1..(k - 1) : ~RealAt(result, j)
                  /\ fake_prob = One - result[k].score)

\* An unmatched entry, then 'REAL' with 0.3, then 'Authentic_Face' with
\* another score: 0.7 comes back.
C19_Witness ==
    /\ pc = "extract_done"
    /\ Len(result) = 3
    /\ WellFormed(result)
    /\ result[1].label = Label_Cat
    /\ result[2] = [label |-> <<"R", "E", "A", "L">>, score |-> 3 * Tenth]
    /\ result[3] = [label |-> Label_AuthenticFace, score |-> One]
    /\ fake_prob = 7 * Tenth

\* C20: extract_fake_probability always returns a value: the first entry's
\* score unchanged for a non-empty result none of whose labels matches a
\* fake or real pattern, 0.5 for an empty sequence, for a result that is
\* not a list and for a list whose entries are not dicts; and a value in
\* [0, 1] whenever the scores lie in [0, 1].
C20_NeverRaises ==
    pc = "extract_done" =>
        /\ fake_prob \in 0..One
        /\ (WellFormed(result) /\ result # <<>>
              /\ \A k \in 1..Len(result) :
                    ~FakeAt(result, k) /\ ~RealAt(result, k))
              => fake_prob = result[1].score
        /\ result = <<>> => fake_prob = Half
        /\ ~IsList(result) => fake_prob = Half
        /\ (IsList(result) /\ result # <<>>
              /\ \A k \in 1..Len(result) : ~IsDict(result[k]))
              => fake_prob = Half

\* Two unmatched entries: the first one's score 0.3 comes back as it is.
C20_Witness ==
    /\ pc = "extract_done"
    /\ Len(result) = 2
    /\ WellFormed(result)
    /\ result[1] = [label |-> Label_Cat, score |-> 3 * Tenth]
    /\ result[2] = [label |-> Label_Cat, score |-> One]
    /\ fake_prob = 3 * Tenth

(***************************************************************************)
(* app.py: calculate_scores                                                *)
(* The code computes in doubles.  Each local is held here as the exact     *)
(* value its double approximates: with n probabilities, multiples of       *)
(* 1 / One, every score is a multiple of 1 / Den(n), and locals hold the   *)
(* numerators.  A double lies within 2^-40 of its exact value and two      *)
(* exact values that differ do so by 1 / Den(n) at least, so a comparison  *)
(* of two locals comes out as it does on the exact values unless these     *)
(* are equal; then it is made on the doubles themselves, computed as the   *)
(* code computes them.  The returned dict holds hundredths.  A field that  *)
(* is NaN is listed in the nan field of the record.                        *)
(***************************************************************************)
MaxResults == 3         \* results (frames) handed to calculate_scores

Percent == 100          \* the factor 100 turning a probability into a score

MediaTypes == {"IMAGE", "VIDEO", "AUDIO", "UNKNOWN"}

\* The common denominator, One^2 n^2 / 1000, of the scores of n
\* probabilities; 1000 * variance is a multiple of it, the others of
\* 1 / (One n).
Den(n) == ((One * One) \div 1000) * (IF n = 0 THEN 1 ELSE n * n)

\* The numerator over den of the score 100 * (1 / One).
PerUnit(den) == (Percent * den) \div One

RECURSIVE SumSeq(_)
SumSeq(seq) == IF seq = <<>> THEN 0 ELSE Head(seq) + SumSeq(Tail(seq))

RECURSIVE MaxSeq(_)
MaxSeq(seq) ==
    IF Len(seq) = 1 THEN seq[1] ELSE Max(Head(seq), MaxSeq(Tail(seq)))

RECURSIVE Sorted(_)
Sorted(seq) ==
    IF seq = <<>> THEN <<>>
    ELSE LET rest == Sorted(Tail(seq))
             below == SelectSeq(rest, LAMBDA v : v <= Head(seq))
             above == SelectSeq(rest, LAMBDA v : v > Head(seq))
         IN  below \o <<Head(seq)>> \o above

\* Variant: the 90th percentile by the lower neighbour, no interpolation.
Percentile90Lower(probs) ==
    LET n == Len(probs)
        sorted == Sorted(probs)
    IN  10 * sorted[((9 * (n - 1)) \div 10) + 1]

\* 10 * np.percentile(fake_probs, 90): linear interpolation at rank
\* 0.9 * (n - 1) of the sorted probabilities.
Percentile90(probs) ==
    LET n == Len(probs)
        sorted == Sorted(probs)
        rank10 == 9 * (n - 1)
        lo == rank10 \div 10
        gamma10 == rank10 % 10
        hi == Min(lo + 1, n - 1)
    IN  10 * sorted[lo + 1] + gamma10 * (sorted[hi + 1] - sorted[lo + 1])

\* n^2 * One^2 * np.var(fake_probs): population variance, numerator only.
VarianceNum(probs) ==
    LET n == Len(probs)
        squares == [k \in 1..n |-> probs[k] * probs[k]]
    IN  n * SumSeq(squares) - SumSeq(probs) * SumSeq(probs)

\* Variant: no lower clamp.
ClampPercentUpperOnly(x, den) == Min(Percent * den, x)

\* max(0, min(100, x)) on numerators over den.
ClampPercent(x, den) == Max(0, Min(Percent * den, x))

\* Variant: the variance term applied to every media type.
temporal_any_media(media, probs) ==
    IF Len(probs) > 1
      THEN ClampPercent(Percent * Den(Len(probs)) - VarianceNum(probs),
                        Den(Len(probs)))
      ELSE Percent * Den(Len(probs))

\* Lines 169-174, numerator over Den(n): 1000 * variance is
\* VarianceNum / Den(n).
temporal_consistency(media, probs) ==
    IF media = "VIDEO" /\ Len(probs) > 1
      THEN ClampPercent(Percent * Den(Len(probs)) - VarianceNum(probs),
                        Den(Len(probs)))
      ELSE Percent * Den(Len(probs))

\* Variant: the mean of the fake probabilities themselves.
confidence_of_fake(probs) ==
    IF Len(probs) > 0
      THEN SumSeq(probs) * (PerUnit(Den(Len(probs))) \div Len(probs))
      ELSE 0

\* Line 180, numerator over Den(n): 100 * mean of max(p, 1 - p).  For no
\* probabilities np.mean gives NaN, which ScoreLocals lists in nan.
confidence(probs) ==
    LET certain == [k \in 1..Len(probs) |-> Max(probs[k], One - probs[k])]
    IN  IF Len(probs) > 0
          THEN SumSeq(certain) * (PerUnit(Den(Len(probs))) \div Len(probs))
          ELSE 0

\* The doubles of lines 159 and 160.
peak_risk_double(ds) == DoubleTimes(DoubleMax(ds), DoubleHundred)

mean_risk_double(ds) ==
    DoubleTimes(DoubleOver(DoubleSum(ds), Len(ds)), DoubleHundred)

\* The double of line 158.  np.percentile takes the rank (n - 1) * 0.9,
\* its floor and the fraction gamma left, and interpolates between the two
\* neighbours a <= b in the sorted array: a + (b - a) * gamma, or
\* b - (b - a) * (1 - gamma) when gamma >= 0.5.
Lerp(a, b, diff, gamma) ==
    IF DoubleLess(gamma, DoubleHalf)
      THEN DoublePlus(a, DoubleTimes(diff, gamma))
      ELSE DoubleMinus(b, DoubleTimes(diff, DoubleMinus(DoubleOne, gamma)))

LerpBetween(a, b, gamma) == Lerp(a, b, DoubleMinus(b, a), gamma)

LerpAt(sorted, previous, rank) ==
    LerpBetween(sorted[Min(previous, Len(sorted) - 1) + 1],
                sorted[Min(previous + 1, Len(sorted) - 1) + 1],
                DoubleMinus(rank, DoubleOf(previous)))

PercentileAt(sorted, rank) == LerpAt(sorted, DoubleFloor(rank), rank)

video_score_double(ds) ==
    DoubleTimes(PercentileAt(SortedDoubles(ds),
                             DoubleTimes(DoubleOf(Len(ds) - 1),
                                         DoubleQuantile)),
                DoubleHundred)

\* mean_risk > peak_risk as the doubles of lines 159-160 have it.  The
\* exact mean never exceeds the exact maximum and equals it only when all
\* the probabilities are equal.
MeanAbovePeak(mean, peak, ds) ==
    IF mean # peak THEN mean > peak
    ELSE Len(ds) > 0 /\ DoubleLess(peak_risk_double(ds), mean_risk_double(ds))

\* Line 184: peak_risk > risk_score + 10, risk_score being video_score.
PeakFarAbove(video, peak, den, ds) ==
    IF peak # video + 10 * den THEN peak > video + 10 * den
    ELSE Len(ds) > 0 /\ DoubleLess(DoublePlus(video_score_double(ds),
                                               DoubleTen),
                                    peak_risk_double(ds))

\* Variant: blend as soon as the peak reaches video_score + 10.
risk_score_blend_at_ten(video, peak, den, far_above) ==
    LET blended == IF far_above \/ peak = video + 10 * den
                     THEN (7 * video + 3 * peak) \div 10
                     ELSE video
    IN  Min(Percent * den, Max(0, blended))

\* Lines 183-186 on numerators over den; far_above is the outcome of the
\* comparison of line 184.
risk_score(video, peak, den, far_above) ==
    LET blended == IF far_above
                     THEN (7 * video + 3 * peak) \div 10
                     ELSE video
    IN  Min(Percent * den, Max(0, blended))

\* round(num / den, 2) in hundredths: the nearest hundredth.  The code rounds
\* a double that only approximates num / den, so when num / den lies exactly
\* half way between two hundredths either neighbour may come out.
Round2(num, den) ==
    LET hundredth == den \div Percent
        q == num \div hundredth
        r == num % hundredth
    IN  IF 2 * r > hundredth THEN {q + 1}
        ELSE IF 2 * r < hundredth THEN {q}
        ELSE {q, q + 1}

\* The scores of lines 145-186 before rounding, numerators over den, and
\* the outcome of the comparisons that the doubles decide.
ScoreLocals(res, media) ==
    LET fake_probs == [k \in 1..Len(res) |-> extract_fake_probability(res[k])]
        doubles == Tuple([k \in 1..Len(res) |->
                             extract_fake_probability_double(res[k])])
        n == Len(fake_probs)
        den == Den(n)
        video_score ==
            IF n > 0 THEN Percentile90(fake_probs) * (PerUnit(den) \div 10)
            ELSE 0
        peak_risk == IF n > 0 THEN MaxSeq(fake_probs) * PerUnit(den) ELSE 0
        mean_risk ==
            IF n > 0 THEN SumSeq(fake_probs) * (PerUnit(den) \div n) ELSE 0
    IN  [fake_probs |-> fake_probs,
         den |-> den,
         video_score |-> video_score,
         peak_risk |-> peak_risk,
         mean_risk |-> mean_risk,
         mean_above_peak |-> MeanAbovePeak(mean_risk, peak_risk, doubles),
         gan_fingerprint |-> video_score,
         temporal_consistency |-> temporal_consistency(media, fake_probs),
         audio_score |-> IF media # "AUDIO" THEN 0 ELSE video_score,
         confidence |-> confidence(fake_probs),
         risk_score |->
             risk_score(video_score, peak_risk, den,
                        n > 0 /\ PeakFarAbove(video_score, peak_risk, den,
                                              doubles)),
         nan |-> IF n > 0 THEN {} ELSE {"confidence"}]

\* The dicts made of the locals l: every field rounded to 2 decimals.
\* gan_fingerprint, and audio_score for AUDIO, are the same float as
\* video_score and round as it does.
Rounded(l, media) ==
        {[video_score |-> v,
          peak_risk |-> p,
          mean_risk |-> m,
          audio_score |-> IF media # "AUDIO" THEN 0 ELSE v,
          gan_fingerprint |-> v,
          temporal_consistency |-> t,
          risk_score |-> r,
          confidence |-> c,
          nan |-> l.nan] :
            v \in Round2(l.video_score, l.den),
            p \in Round2(l.peak_risk, l.den),
            m \in Round2(l.mean_risk, l.den),
            t \in Round2(l.temporal_consistency, l.den),
            r \in Round2(l.risk_score, l.den),
            c \in Round2(l.confidence, l.den)}

calculate_scores(res, media) == Rounded(ScoreLocals(res, media), media)

\* What a two-class classifier returns for a frame that is fake with
\* probability a / One: both labels, the likelier first.
BinaryResult(a) ==
    IF a >= One - a
      THEN <<[label |-> Label_Fake, score |-> a],
             [label |-> Label_Real, score |-> One - a]>>
      ELSE <<[label |-> Label_Real, score |-> One - a],
             [label |-> Label_Fake, score |-> a]>>

\* The probabilities 0.0, 0.1, ..., 1.0 and 0.5001.
FrameProbabilities == {k * Tenth : k \in 0..10} \cup {Half + 1}

FrameResults == {BinaryResult(a) : a \in FrameProbabilities}

\* The worked example: probabilities 0.9, 0.1, 0.1, 0.1, 0.1 of a video.
ExampleProbabilities == <<9 * Tenth, Tenth, Tenth, Tenth, Tenth>>
ExampleResults == [k \in 1..5 |-> BinaryResult(ExampleProbabilities[k])]

InitScores ==
    /\ pc = "scores_call"
    /\ \/ /\ results \in SeqsUpTo(FrameResults, MaxResults)
          /\ media_type \in MediaTypes
       \/ /\ results = ExampleResults
          /\ media_type = "VIDEO"
    /\ result = <<>>
    /\ fake_prob = Idle
    /\ locals = Idle
    /\ scores = Idle
    /\ FaceIdle
    /\ FramesIdle
    /\ RestIdle

CalculateScores ==
    /\ pc = "scores_call"
    /\ locals' = ScoreLocals(results, media_type)
    /\ scores' \in calculate_scores(results, media_type)
    /\ pc' = "scores_done"
    /\ UNCHANGED <<result, fake_prob, results, media_type, detectorVars,
                   faceVars, frameVars,
                   restVars>>

NextScores == CalculateScores

SpecScores == InitScores /\ [][NextScores]_vars

ScoresDone == pc = "scores_done" /\ Len(results) >= 1

ScoreFields ==
    {"video_score", "peak_risk", "mean_risk", "audio_score", "gan_fingerprint",
     "temporal_consistency", "risk_score", "confidence"}

\* C8: risk_score equals video_score unless peak_risk > video_score + 10,
\* and then it equals 0.7 * video_score + 0.3 * peak_risk; the result is
\* clamped to [0, 100].  Probabilities 0.9, 0.1, 0.1, 0.1, 0.1 of a video
\* give mean_risk 26.0, peak_risk 90.0 and the blended risk_score.
C8_RiskBlend ==
    ScoresDone =>
        LET d == locals.den
            hundredth == d \div 100
            v == locals.video_score
            p == locals.peak_risk
            r == locals.risk_score
        IN  /\ 0 <= r /\ r <= 100 * d
            /\ IF p > v + 10 * d THEN 10 * r = 7 * v + 3 * p ELSE r = v
            /\ 2 * (scores.risk_score * hundredth - r) <= hundredth
            /\ 2 * (r - scores.risk_score * hundredth) <= hundredth
            /\ (locals.fake_probs = ExampleProbabilities
                  /\ media_type = "VIDEO") =>
                  /\ scores.mean_risk = 2600
                  /\ scores.peak_risk = 9000
                  /\ scores.video_score = 5800
                  /\ scores.risk_score = 6760

\* The worked example, with the blended score 67.6 above the raw 58.0.
C8_Witness ==
    /\ ScoresDone
    /\ media_type = "VIDEO"
    /\ locals.fake_probs = ExampleProbabilities
    /\ locals.peak_risk > locals.video_score + 10 * locals.den
    /\ scores.risk_score = 6760
    /\ scores.risk_score # scores.video_score

\* C9: temporal_consistency is 100.0 for a single-element sequence (whatever
\* the media type) and for every media type other than VIDEO; for VIDEO with
\* at least 2 frames it is clamp(0, 100, 100 - populationVariance * 1000).
C9_TemporalConsistency ==
    ScoresDone =>
        LET probs == locals.fake_probs
            n == Len(probs)
            total == SumSeq(probs)
            \* n^3 * One^2 * variance = sum of (n p - total)^2
            dev2 == SumSeq([k \in 1..n |->
                        (n * probs[k] - total) * (n * probs[k] - total)])
            \* n * Den(n) * (100 - 1000 * variance)
            wanted == 100 * n * locals.den - dev2
            clamped == IF wanted < 0 THEN 0
                       ELSE IF wanted > 100 * n * locals.den
                         THEN 100 * n * locals.den
                       ELSE wanted
        IN  IF media_type = "VIDEO" /\ n >= 2
              THEN /\ locals.temporal_consistency * n = clamped
                   /\ scores.temporal_consistency
                         \in Round2(locals.temporal_consistency, locals.den)
              ELSE /\ locals.temporal_consistency = 100 * locals.den
                   /\ scores.temporal_consistency = 10000

\* A video of three frames whose variance leaves a value strictly between
\* 0 and 100.
C9_Witness ==
    /\ ScoresDone
    /\ media_type = "VIDEO"
    /\ Len(results) = 3
    /\ scores.temporal_consistency > 0
    /\ scores.temporal_consistency < 10000

\* C10: for every non-empty sequence of probabilities in [0,1] and every
\* media type, each of the eight fields of the report is finite and lies in
\* [0, 100].
C10_ReportInRange ==
    ScoresDone =>
        /\ scores.nan = {}
        /\ \A f \in ScoreFields : 0 <= scores[f] /\ scores[f] <= 10000

\* A video whose variance is large enough for the lower clamp to act.
C10_Witness ==
    /\ ScoresDone
    /\ media_type = "VIDEO"
    /\ Len(results) >= 2
    /\ VarianceNum(locals.fake_probs) > 100 * locals.den
    /\ scores.temporal_consistency = 0
    /\ scores.peak_risk = 10000

\* C11: calling calculate_scores with an empty sequence of results fails
\* with an error: the call never ends by returning a report.
C11_EmptyFailsLoudly ==
    (pc = "scores_done" /\ results = <<>>) => scores = Idle

\* The k-th smallest of the probabilities, by counting.
KthSmallest(probs, k) ==
    CHOOSE v \in {probs[j] : j \in 1..Len(probs)} :
        /\ Cardinality({j \in 1..Len(probs) : probs[j] < v}) < k
        /\ Cardinality({j \in 1..Len(probs) : probs[j] <= v}) >= k

\* C21: for a non-empty probability sequence video_score is 100 times the
\* 90th percentile, interpolated linearly at rank 0.9 * (N - 1) of the
\* sorted sequence, peak_risk is 100 times the maximum, mean_risk is 100
\* times the mean, and gan_fingerprint equals video_score in every report.
C21_Percentile ==
    ScoresDone =>
        LET probs == locals.fake_probs
            n == Len(probs)
            unit == PerUnit(locals.den)
            lo == (9 * (n - 1)) \div 10
            gamma10 == (9 * (n - 1)) % 10
            below == KthSmallest(probs, lo + 1)
            above == IF gamma10 = 0 THEN below ELSE KthSmallest(probs, lo + 2)
        IN  /\ 10 * locals.video_score
                   = (10 * below + gamma10 * (above - below)) * unit
            /\ \A k \in 1..n : probs[k] * unit <= locals.peak_risk
            /\ \E k \in 1..n : probs[k] * unit = locals.peak_risk
            /\ n * locals.mean_risk = SumSeq(probs) * unit
            /\ locals.gan_fingerprint = locals.video_score
            /\ scores.video_score \in Round2(locals.video_score, locals.den)
            /\ scores.peak_risk \in Round2(locals.peak_risk, locals.den)
            /\ scores.mean_risk \in Round2(locals.mean_risk, locals.den)
            /\ scores.gan_fingerprint = scores.video_score

\* Probabilities 0.8 and 0.2: the percentile lies between the two.
C21_Witness ==
    /\ ScoresDone
    /\ locals.fake_probs = <<8 * Tenth, 2 * Tenth>>
    /\ scores.video_score = 7400
    /\ scores.gan_fingerprint = 7400
    /\ scores.peak_risk = 8000
    /\ scores.mean_risk = 5000

\* The results with every fake probability p replaced by 1 - p.
Flipped(res) ==
    [k \in 1..Len(res) |->
        BinaryResult(One - extract_fake_probability(res[k]))]

\* C22: confidence is 100 times the mean of max(p, 1 - p) over the
\* probabilities: it lies in [50, 100], it is 50 only when every p is 0.5,
\* and it is the same when every p is replaced by 1 - p.
C22_Confidence ==
    ScoresDone =>
        LET probs == locals.fake_probs
            n == Len(probs)
            d == locals.den
            certain == [k \in 1..n |->
                           CHOOSE c \in {probs[k], One - probs[k]} :
                               c >= probs[k] /\ c >= One - probs[k]]
        IN  /\ n * locals.confidence = SumSeq(certain) * PerUnit(d)
            /\ locals.confidence >= 50 * d
            /\ locals.confidence <= 100 * d
            /\ (locals.confidence = 50 * d) <=> (\A k \in 1..n : probs[k] = Half)
            /\ ScoreLocals(Flipped(results), media_type).confidence
                   = locals.confidence
            /\ scores.confidence \in Round2(locals.confidence, d)
            /\ scores.confidence >= 5000
            /\ scores.confidence <= 10000
            /\ (scores.confidence = 5000) <=> (\A k \in 1..n : probs[k] = Half)

\* C22 as it holds: the reported confidence is 100 times the mean of
\* max(p, 1 - p) rounded to two decimals, it lies in [50, 100] and is the
\* same when every p is replaced by 1 - p; before rounding the value is 50
\* only when every p is 0.5, and the report reads 50.0 whenever that value
\* is within half a hundredth of 50.
C22_ConfidenceRounded ==
    ScoresDone =>
        LET probs == locals.fake_probs
            n == Len(probs)
            d == locals.den
            hundredth == d \div 100
            certain == [k \in 1..n |->
                           CHOOSE c \in {probs[k], One - probs[k]} :
                               c >= probs[k] /\ c >= One - probs[k]]
        IN  /\ n * locals.confidence = SumSeq(certain) * PerUnit(d)
            /\ locals.confidence >= 50 * d
            /\ locals.confidence <= 100 * d
            /\ (locals.confidence = 50 * d) <=> (\A k \in 1..n : probs[k] = Half)
            /\ ScoreLocals(Flipped(results), media_type).confidence
                   = locals.confidence
            /\ scores.confidence \in Round2(locals.confidence, d)
            /\ scores.confidence >= 5000
            /\ scores.confidence <= 10000
            /\ (\A k \in 1..n : probs[k] = Half) => scores.confidence = 5000
            /\ 2 * (locals.confidence - 50 * d) < hundredth
                  => scores.confidence = 5000
            /\ scores.confidence = 5000
                  => 2 * (locals.confidence - 50 * d) <= hundredth

\* 0.5001, 0.5 and 0.5: the mean 50.0033 is reported as 50.0 although one
\* probability is not 0.5, and the flipped 0.4999, 0.5, 0.5 report the same.
C22_Witness ==
    /\ ScoresDone
    /\ locals.fake_probs = <<Half + 1, Half, Half>>
    /\ locals.confidence > 50 * locals.den
    /\ scores.confidence = 5000
    /\ ScoreLocals(Flipped(results), media_type).fake_probs
           = <<Half - 1, Half, Half>>

\* C30: for probabilities in [0, 1], before rounding, mean_risk <= peak_risk
\* and video_score <= risk_score <= peak_risk; for a single frame the four
\* are all 100 * p.
C30_Ordering ==
    ScoresDone =>
        /\ \A k \in 1..Len(locals.fake_probs) :
              locals.fake_probs[k] \in 0..One
        /\ locals.mean_risk <= locals.peak_risk
        /\ ~locals.mean_above_peak
        /\ locals.video_score <= locals.risk_score
        /\ locals.risk_score <= locals.peak_risk
        /\ Len(locals.fake_probs) = 1 =>
              LET p100 == locals.fake_probs[1] * PerUnit(locals.den)
              IN  /\ locals.mean_risk = p100
                  /\ locals.peak_risk = p100
                  /\ locals.video_score = p100
                  /\ locals.risk_score = p100

(***************************************************************************)
(* app.py: run_model_inference and the inference endpoint                  *)
(* The request is what the client sends: the kind of body and, for a JSON  *)
(* object, its hash, mediaType and extractedFrames.  service_env is what   *)
(* the collaborators do: request.get_json, get_pipeline, the files behind  *)
(* the frame paths, the classifier pipeline.  calls lists the calls the    *)
(* handler makes of preprocessing (preprocess_image, preprocess_frames)    *)
(* and of the classifier, each with the frames it is given, and returned   *)
(* is what run_model_inference handed back.  The response is the status    *)
(* and body jsonify is given, with the number of calls of each kind that   *)
(* the handler had made when it answered.                                  *)
(***************************************************************************)
MaxReqFrames == 2       \* extractedFrames holds 0..MaxReqFrames paths

inference_max_frames == 30

BodyKinds == {"absent", "malformed", "falsy", "array", "object"}
\* The hash of the body: absent, a string, a falsy value that is not a
\* string (0, 0.0, false, null), or a number other than zero.  Line 248
\* slices the hash only when it is truthy.
HashKinds == {"absent", "string", "zero", "number"}

\* request.get_json() on each kind of body.  No body, or a body that is not
\* JSON: Flask raises BadRequest when the Content-Type announces JSON, and,
\* when it does not, raises UnsupportedMediaType or (before Flask 2.1)
\* returns None.  falsy stands for {}, [], null, 0, "" and false.
GetJsonOutcomes(body) ==
    IF body \in {"absent", "malformed"} THEN {"raises", "None"} ELSE {body}

Requests ==
    {[body |-> b, hash |-> "absent", mediaType |-> "UNKNOWN",
      extractedFrames |-> <<>>] : b \in BodyKinds \ {"object"}}
    \cup {[body |-> "object", hash |-> hk, mediaType |-> mt,
           extractedFrames |-> FramePaths(n)] :
              hk \in HashKinds, mt \in MediaTypes, n \in 0..MaxReqFrames}

\* What pipeline(images) yields: an exception, a dict, a list of dicts (one
\* classifier result, possibly the empty list) or a non-empty list of such
\* lists.  value holds the classifier results: the one list of dicts, or the
\* lists of the list of lists.
ClassifierResults == {BinaryResult(a) : a \in {Tenth, Half, 9 * Tenth}}
PipelineOutputs ==
    {[kind |-> k, value |-> <<>>] : k \in {"raises", "dict"}}
    \cup {[kind |-> "list_of_dicts", value |-> <<v>>] :
              v \in {<<>>} \cup ClassifierResults}
    \cup {[kind |-> "list_of_lists", value |-> v] :
              v \in SeqsUpTo(ClassifierResults, 2) \ {<<>>}}

\* bad_paths are the frames preprocess_image raises for: missing files
\* (line 55) and, in unreadable_paths, files Image.open cannot read (line
\* 56).  The frames that fail are all missing or all unreadable.
ServiceEnvs(req) ==
    {env \in [get_json : GetJsonOutcomes(req.body),
              get_pipeline_raises : BOOLEAN,
              bad_paths : SUBSET (1..MaxReqFrames),
              unreadable_paths : SUBSET (1..MaxReqFrames),
              pipeline : PipelineOutputs] :
        env.unreadable_paths \in {{}, env.bad_paths}}

\* str(e) of the exception preprocess_image raises for a frame it cannot
\* load: the FileNotFoundError of line 55 or the error of Image.open.
OpenError(path, env) ==
    IF path \in env.unreadable_paths THEN "cannot identify image file"
                                     ELSE "Image file not found"

\* Lines 65-83: the pipeline is called once; a dict and a list that does not
\* start with a list are wrapped in a list.
run_model_inference(out) ==
    IF out.kind = "raises" THEN [raised |-> TRUE, results |-> <<>>]
    ELSE IF out.kind = "dict" THEN [raised |-> FALSE, results |-> <<NotAList>>]
    ELSE IF out.kind = "list_of_lists"
      THEN [raised |-> FALSE, results |-> out.value]
    ELSE [raised |-> FALSE, results |-> <<out.value[1]>>]

\* bool(images) of line 274 for the tensor torch.stack built, of shape
\* [n, 3, 224, 224]: torch raises RuntimeError for more than one element.
TensorBoolRaises(batch_tensor) == batch_tensor[1] * 3 * 224 * 224 > 1

ErrorResponse(status, error, message) ==
    [status |-> status, error |-> error, message |-> message, report |-> Idle]

\* The except clause of lines 302-307.
Failed(message) == ErrorResponse(500, "Inference failed", message)

\* Lines 288-300.
ScoreReport(sc) ==
    [status |-> 200, error |-> "", message |-> "", report |-> sc]

\* Variant: the report aggregated from the first result only.
image_branch_first_result(media, frames, env) ==
    IF frames = <<>> THEN {Failed("No frame paths provided for IMAGE")}
    ELSE IF frames[1] \in env.bad_paths
      THEN {Failed(OpenError(frames[1], env))}
    ELSE LET r == run_model_inference(env.pipeline)
         IN  IF r.raised THEN {Failed("pipeline error")}
             ELSE {ScoreReport(sc) :
                      sc \in calculate_scores(<<r.results[1]>>, media)}

\* Lines 254-263.
image_branch(media, frames, env) ==
    IF frames = <<>> THEN {Failed("No frame paths provided for IMAGE")}
    ELSE IF frames[1] \in env.bad_paths
      THEN {Failed(OpenError(frames[1], env))}
    ELSE LET r == run_model_inference(env.pipeline)
         IN  IF r.raised THEN {Failed("pipeline error")}
             ELSE {ScoreReport(sc) : sc \in calculate_scores(r.results, media)}

\* Lines 265-279.
video_branch(media, frames, env) ==
    IF frames = <<>> THEN {Failed("No frame paths provided for VIDEO")}
    ELSE LET b == preprocess_frames(frames, <<inference_max_frames>>,
                                    env.bad_paths)
         IN  IF b.raised THEN {Failed(b.message)}
             ELSE IF b.batch_tensor # None /\ TensorBoolRaises(b.batch_tensor)
               THEN {Failed("Boolean value of Tensor with more than one value is ambiguous")}
             ELSE IF b.batch_tensor = None \/ Len(b.valid_paths) = 0
               THEN {Failed("No valid frames processed")}
             ELSE LET r == run_model_inference(env.pipeline)
                  IN  IF r.raised THEN {Failed("pipeline error")}
                      ELSE {ScoreReport(sc) :
                               sc \in calculate_scores(r.results, media)}

\* Variant: an AUDIO request scored like an image.
media_branch_audio_scored(media, frames, env) ==
    IF media \in {"IMAGE", "AUDIO"} THEN image_branch(media, frames, env)
    ELSE IF media = "VIDEO" THEN video_branch(media, frames, env)
    ELSE {Failed("Unknown media type")}

\* Variant: a mediaType that is not VIDEO or AUDIO handled as an image.
media_branch_image_by_default(media, frames, env) ==
    IF media = "VIDEO" THEN video_branch(media, frames, env)
    ELSE IF media = "AUDIO"
      THEN {Failed("Audio-only inference not supported by image classification model")}
    ELSE image_branch(media, frames, env)

\* Lines 253-286: "Process based on media type".
media_branch(media, frames, env) ==
    IF media = "IMAGE" THEN image_branch(media, frames, env)
    ELSE IF media = "VIDEO" THEN video_branch(media, frames, env)
    ELSE IF media = "AUDIO"
      THEN {Failed("Audio-only inference not supported by image classification model")}
    ELSE {Failed("Unknown media type")}

\* Lines 221-307: the responses the endpoint may give.
inference(req, loaded, env) ==
    IF env.get_json = "raises" THEN {Failed("get_json error")}
    ELSE IF env.get_json \in {"None", "falsy"}
      THEN {ErrorResponse(400, "Invalid request", "Request body must be JSON")}
    ELSE IF ~loaded
      THEN {ErrorResponse(503, "Service Unavailable", "Model is not loaded")}
    ELSE IF env.get_json = "array" THEN {Failed("no attribute get")}
    ELSE IF req.hash = "number" THEN {Failed("not subscriptable")}
    ELSE IF env.get_pipeline_raises THEN {Failed("get_pipeline error")}
    ELSE media_branch(req.mediaType, req.extractedFrames, env)

\* Lines 228-272: the handler gets as far as calling preprocess_image (line
\* 261) or preprocess_frames (line 272).
ReachesPreprocessing(req, loaded, env) ==
    /\ env.get_json = "object"
    /\ loaded
    /\ req.hash # "number"
    /\ ~env.get_pipeline_raises
    /\ req.mediaType \in {"IMAGE", "VIDEO"}
    /\ req.extractedFrames # <<>>

\* Lines 261-262 and 272-278: preprocessing has returned and the handler
\* gets as far as run_model_inference.
ReachesClassifier(req, env) ==
    IF req.mediaType = "IMAGE" THEN req.extractedFrames[1] \notin env.bad_paths
    ELSE LET b == preprocess_frames(req.extractedFrames,
                                    <<inference_max_frames>>, env.bad_paths)
         IN  /\ ~b.raised
             /\ b.batch_tensor # None
             /\ ~TensorBoolRaises(b.batch_tensor)
             /\ Len(b.valid_paths) > 0

\* Lines 261 and 272-277: the frames handed to the classifier, the image
\* of the first path or the valid frames of the batch.
Prepared(req, env) ==
    IF req.mediaType = "IMAGE" THEN <<req.extractedFrames[1]>>
    ELSE preprocess_frames(req.extractedFrames, <<inference_max_frames>>,
                           env.bad_paths).valid_paths

\* The calls made so far of the functions fns.
CallsOf(fns) == SelectSeq(calls, LAMBDA c : c.fn \in fns)

\* The response r with the number of calls the handler has made.
Counted(r) ==
    [status |-> r.status, error |-> r.error, message |-> r.message,
     report |-> r.report,
     classifier_calls |-> Len(CallsOf({"pipeline"})),
     preprocess_calls |->
         Len(CallsOf({"preprocess_image", "preprocess_frames"}))]

InitInference ==
    /\ pc = "inference_call"
    /\ model_loaded \in BOOLEAN
    /\ request \in Requests
    /\ service_env \in ServiceEnvs(request)
    /\ response = Idle
    /\ health = Idle
    /\ calls = <<>>
    /\ returned = Idle
    /\ FreshDetector(PreprocessScenarios)
    /\ OneCaller("line_228", "preprocess_image")
    /\ FaceArgsIdle
    /\ FramesIdle
    /\ ScoresIdle

\* The handler is at work on a request, alone or within the service.
Handling == pc \in {"inference_call", "handling"}

\* The position once the handler has returned its response.
Answered == IF pc = "inference_call" THEN "inference_done"
                                     ELSE "inference_answered"

\* Lines 228-272: the handler reaches preprocess_image for the first frame
\* (line 261) or preprocess_frames with max_frames 30 (line 272), or it
\* has its answer without preprocessing anything.
Inference ==
    /\ Handling
    /\ At(Caller, "line_228")
    /\ IF ReachesPreprocessing(request, model_loaded, service_env)
         THEN /\ frame_paths' = request.extractedFrames
              /\ max_frames' = IF request.mediaType = "VIDEO"
                                 THEN <<inference_max_frames>> ELSE None
              /\ bad_paths' = service_env.bad_paths
              /\ sampled' = IF request.mediaType = "VIDEO"
                              THEN SampleFrames(request.extractedFrames,
                                                <<inference_max_frames>>)
                              ELSE <<request.extractedFrames[1]>>
              /\ frame_index' = 1
              /\ calls' = Append(calls,
                                 IF request.mediaType = "VIDEO"
                                   THEN [fn |-> "preprocess_frames",
                                         frames |-> request.extractedFrames]
                                   ELSE [fn |-> "preprocess_image",
                                         frames |->
                                             <<request.extractedFrames[1]>>])
              /\ thread_pc' = [thread_pc EXCEPT ![Caller] = "line_108"]
         ELSE /\ thread_pc' = [thread_pc EXCEPT ![Caller] = "jsonify"]
              /\ UNCHANGED <<frame_paths, max_frames, bad_paths, sampled,
                             frame_index, calls>>
    /\ UNCHANGED <<pc, model_loaded, request, service_env, response, health,
                   returned, batch, detectorVars, faceVars, scoreVars,
                   thread_local, files, init_entries, downloads, loads>>

\* The frames are done: preprocessing returns or raises.
Preprocessed == At(Caller, "line_108") /\ frame_index > Len(sampled)

\* Line 67 of run_model_inference, called at lines 262 and 278: the
\* classifier pipeline is called with the prepared frames and the handler
\* waits for it; or there is nothing to classify and the handler has its
\* answer.
ClassifierCall ==
    /\ Handling
    /\ Preprocessed
    /\ IF ReachesClassifier(request, service_env)
         THEN /\ calls' = Append(calls,
                                 [fn |-> "pipeline",
                                  frames |-> Prepared(request, service_env)])
              /\ thread_pc' = [thread_pc EXCEPT ![Caller] = "line_67"]
         ELSE /\ thread_pc' = [thread_pc EXCEPT ![Caller] = "jsonify"]
              /\ UNCHANGED calls
    /\ UNCHANGED <<pc, model_loaded, request, service_env, response, health,
                   returned, detectorVars, faceVars, frameVars, scoreVars,
                   thread_local, files, init_entries, downloads, loads>>

\* Lines 67-83: the pipeline returns or raises, and run_model_inference
\* hands the list of results to the handler (lines 262 and 278).
ClassifierReturn ==
    /\ Handling
    /\ At(Caller, "line_67")
    /\ returned' = run_model_inference(service_env.pipeline)
    /\ thread_pc' = [thread_pc EXCEPT ![Caller] = "line_263"]
    /\ UNCHANGED <<pc, model_loaded, request, service_env, response, health,
                   calls, detectorVars, faceVars, frameVars, scoreVars,
                   thread_local, files, init_entries, downloads, loads>>

\* Lines 230-240, 263, 279, 288-307: the classifier has returned or raised,
\* or the handler had its answer before, and the response is returned.
InferenceRespond ==
    /\ Handling
    /\ AtAny(Caller, {"line_263", "jsonify"})
    /\ \E r \in inference(request, model_loaded, service_env) :
          response' = Counted(r)
    /\ pc' = Answered
    /\ thread_pc' = [thread_pc EXCEPT ![Caller] = "returned"]
    /\ UNCHANGED <<model_loaded, request, service_env, health, calls, returned,
                   detectorVars, faceVars, frameVars, scoreVars, thread_local,
                   files, init_entries, downloads, loads>>

NextInference ==
    \/ Inference
    \/ OpenFrame
    \/ DetectorStep(Caller)
    \/ FrameDone
    \/ ClassifierCall
    \/ ClassifierReturn
    \/ InferenceRespond

SpecInference == InitInference /\ [][NextInference]_vars

InferenceDone == pc = "inference_done"

\* C12: the endpoint answers 400 for a missing or empty JSON body whatever
\* the model state, 503 for a non-empty body while the model is not loaded
\* whatever the mediaType and frames, 500 with an error and a message for a
\* failure after these two checks, 200 only with a score report, and never
\* 500 or 200 while the model is not loaded.
C12_EndpointStatus ==
    InferenceDone =>
        /\ request.body \in {"absent", "falsy"} => response.status = 400
        /\ (request.body \in {"array", "object"} /\ ~model_loaded)
              => response.status = 503
        /\ response.status = 500
              => response.error = "Inference failed" /\ response.message # ""
        /\ response.status = 200 => response.report # Idle
        /\ ~model_loaded => response.status \notin {500, 200}

\* C13: a request whose mediaType is AUDIO is answered with an error and
\* no classifier call, and no 200 response carries a non-zero audio_score.
C13_AudioRejected ==
    InferenceDone =>
        /\ (request.body = "object" /\ request.mediaType = "AUDIO")
              => /\ response.status \in {500, 503}
                 /\ response.report = Idle
                 /\ response.classifier_calls = 0
        /\ response.status = 200 => response.report.audio_score = 0

\* An AUDIO request with frames, the model loaded and every collaborator
\* working, answered 500.
C13_Witness ==
    /\ InferenceDone
    /\ model_loaded
    /\ request.mediaType = "AUDIO"
    /\ request.hash = "string"
    /\ request.extractedFrames # <<>>
    /\ service_env.bad_paths = {}
    /\ ~service_env.get_pipeline_raises
    /\ service_env.pipeline.kind = "list_of_lists"
    /\ response.status = 500
    /\ response.classifier_calls = 0

\* C15: a VIDEO request received while the model is loaded, with a frame
\* that can be preprocessed and working collaborators, is answered 200 with
\* the report aggregated from the classifier's results; the failure 'No
\* valid frames processed' occurs only when no frame was preprocessed.
C15_VideoReport ==
    InferenceDone =>
        /\ (/\ request.body = "object" /\ request.mediaType = "VIDEO"
            /\ request.hash # "number" /\ model_loaded
            /\ \E k \in 1..Len(request.extractedFrames) :
                  request.extractedFrames[k] \notin service_env.bad_paths
            /\ ~service_env.get_pipeline_raises
            /\ service_env.pipeline.kind # "raises")
              => /\ response.status = 200
                 /\ response.report \in
                       calculate_scores(
                           run_model_inference(service_env.pipeline).results,
                           "VIDEO")
        /\ response.message = "No valid frames processed"
              => \A k \in 1..Len(request.extractedFrames) :
                    request.extractedFrames[k] \in service_env.bad_paths

\* C23: an IMAGE or VIDEO request with missing or empty extractedFrames,
\* and any request whose mediaType is not IMAGE, VIDEO or AUDIO, is
\* answered with an error response and no score report, and neither
\* preprocessing nor the classifier is invoked for it.
C23_RejectedUnprocessed ==
    (/\ InferenceDone
     /\ \/ request.mediaType \in {"IMAGE", "VIDEO"}
              /\ request.extractedFrames = <<>>
        \/ request.mediaType \notin {"IMAGE", "VIDEO", "AUDIO"})
        => /\ response.status \in {400, 500, 503}
           /\ response.error # ""
           /\ response.report = Idle
           /\ response.preprocess_calls = 0
           /\ response.classifier_calls = 0

\* An IMAGE request without frames reaching the media branch.
C23_Witness ==
    /\ InferenceDone
    /\ model_loaded
    /\ request.body = "object"
    /\ request.mediaType = "IMAGE"
    /\ request.extractedFrames = <<>>
    /\ ~service_env.get_pipeline_raises
    /\ service_env.pipeline.kind = "list_of_lists"
    /\ response.status = 500
    /\ response.message = "No frame paths provided for IMAGE"
    /\ response.preprocess_calls = 0

C26_InvalidFramesSkipped ==
    (/\ InferenceDone
     /\ model_loaded
     /\ request.body = "object" /\ request.mediaType = "VIDEO"
     /\ request.hash # "number"
     /\ ~service_env.get_pipeline_raises)
        => LET frames == request.extractedFrames
               valid == SelectSeq(frames,
                                  LAMBDA f : f \notin service_env.bad_paths)
               out == service_env.pipeline
           IN  /\ (frames # <<>> /\ valid = <<>>)
                     => response.message = "No valid images found in batch"
               /\ (/\ valid # <<>>
                   /\ out.kind = "list_of_lists"
                   /\ Len(out.value) = Len(valid))
                     => /\ response.status = 200
                        /\ response.report \in
                              calculate_scores(out.value, "VIDEO")

(***************************************************************************)
(* app.py: the service from startup on                                     *)
(* app.py imports get_pipeline from model_loader (line 27), and            *)
(* model_loader.py defines none: the import raises, and the process ends   *)
(* before it serves anything, unless the model_loader that is deployed     *)
(* provides the function (get_pipeline_defined).  load_model_on_startup    *)
(* then runs once, before the first request (lines 326-340), and app.run   *)
(* serves requests, each in a thread of its own: a health request is       *)
(* answered at any time, also while an inference request is being handled. *)
(* service_env holds what the import and load_model do at startup and,     *)
(* during a request, what the handler's collaborators do.  The face        *)
(* detector is initialised by the first request whose preprocessing opens  *)
(* an image, and stays as it is from then on.                              *)
(***************************************************************************)
\* Lines 40-51: the value _model_loaded is left with.
load_model_on_startup(load_model_raises) == ~load_model_raises

\* Variant: a health endpoint that always answers 200 'healthy'.
health_check_always_healthy(loaded) ==
    [status |-> 200, error |-> "", message |-> "healthy", report |-> Idle,
     classifier_calls |-> 0, preprocess_calls |-> 0]

\* Lines 206-217: the status code and the 'status' field of the body.
health_check(loaded) ==
    [status |-> IF loaded THEN 200 ELSE 503, error |-> "",
     message |-> IF loaded THEN "healthy" ELSE "unhealthy", report |-> Idle,
     classifier_calls |-> 0, preprocess_calls |-> 0]

StartupEnvs == [load_model_raises : BOOLEAN, get_pipeline_defined : BOOLEAN]

\* The part of service_env that startup decided.
StartupPart(env) ==
    [load_model_raises |-> env.load_model_raises,
     get_pipeline_defined |-> env.get_pipeline_defined]

\* The requests the running service is sent, and what the collaborators do
\* with each: as for the handler alone, with a hash that is a string, a
\* working get_pipeline, frames that are all there or all missing, and a
\* classifier that raises or returns one label list.
ServedRequests ==
    {req \in Requests : req.body = "object" => req.hash = "string"}

ServedEnvs(req) ==
    {env \in ServiceEnvs(req) :
        /\ ~env.get_pipeline_raises
        /\ env.unreadable_paths = {}
        /\ env.bad_paths \in {{}, 1..Len(req.extractedFrames)}
        /\ env.pipeline \in {[kind |-> "raises", value |-> <<>>],
                             [kind |-> "list_of_dicts",
                              value |-> <<BinaryResult(9 * Tenth)>>]}}

InitService ==
    /\ pc = "startup"
    /\ model_loaded = FALSE
    /\ request = Idle
    /\ service_env \in StartupEnvs
    /\ response = Idle
    /\ health = Idle
    /\ calls = <<>>
    /\ returned = Idle
    /\ FreshDetector(PreprocessScenarios)
    /\ thread_pc = Idle
    /\ thread_local = Idle
    /\ init_entries = 0
    /\ downloads = [f \in DetectorFiles |-> 0]
    /\ loads = 0
    /\ FaceArgsIdle
    /\ FramesIdle
    /\ ScoresIdle

Serving == pc \in {"serving", "handling", "inference_answered"}

\* Line 27, then lines 326-340.
Startup ==
    /\ pc = "startup"
    /\ IF service_env.get_pipeline_defined
         THEN /\ model_loaded' =
                    load_model_on_startup(service_env.load_model_raises)
              /\ pc' = "serving"
         ELSE /\ pc' = "import_error"
              /\ UNCHANGED model_loaded
    /\ UNCHANGED <<request, service_env, response, health, calls, returned,
                   threadVars, detectorVars, faceVars, frameVars, scoreVars>>

\* Lines 206-217, in a thread of its own.
HealthCheck ==
    /\ Serving
    /\ health' = health_check(model_loaded)
    /\ UNCHANGED <<pc, model_loaded, request, service_env, response, calls,
                   returned, threadVars, detectorVars, faceVars, frameVars,
                   scoreVars>>

\* An inference request arrives and its handler starts (line 221).
ServeInference ==
    /\ pc = "serving"
    /\ \E req \in ServedRequests :
          \E env \in ServedEnvs(req) :
             /\ request' = req
             /\ service_env' =
                   [f \in DOMAIN env \cup DOMAIN service_env |->
                       IF f \in DOMAIN env THEN env[f] ELSE service_env[f]]
    /\ thread_pc' = <<"line_228">>
    /\ thread_local' = <<EnterCall("preprocess_image")>>
    /\ pc' = "handling"
    /\ UNCHANGED <<model_loaded, response, health, calls, returned, files,
                   init_entries, downloads, loads, detectorVars, faceVars,
                   frameVars, scoreVars>>

\* The response is sent and the handler's thread ends.
AwaitRequest ==
    /\ pc = "inference_answered"
    /\ request' = Idle
    /\ response' = Idle
    /\ service_env' = StartupPart(service_env)
    /\ frame_paths' = <<>>
    /\ max_frames' = None
    /\ bad_paths' = {}
    /\ sampled' = <<>>
    /\ frame_index' = 0
    /\ calls' = <<>>
    /\ returned' = Idle
    /\ thread_pc' = Idle
    /\ thread_local' = Idle
    /\ pc' = "serving"
    /\ UNCHANGED <<model_loaded, health, batch, files, init_entries, downloads,
                   loads, detectorVars, faceVars, scoreVars>>

NextService ==
    \/ Startup
    \/ HealthCheck
    \/ ServeInference
    \/ Inference
    \/ OpenFrame
    \/ DetectorStep(Caller)
    \/ FrameDone
    \/ ClassifierCall
    \/ ClassifierReturn
    \/ InferenceRespond
    \/ AwaitRequest

SpecService == InitService /\ [][NextService]_vars

\* C28: the model-loaded flag is written by the startup load only, never
\* by a request handler.  After a failed startup load every health request
\* answers 503 'unhealthy' and every inference request with a non-empty
\* JSON body answers 503, forever; after a successful load health always
\* answers 200; and health answers 200 exactly when the 503 gate of
\* inference is open.
C28_LoadedFlag ==
    /\ [](Serving =>
            /\ model_loaded = ~service_env.load_model_raises
            /\ health # Idle =>
                  /\ health.status
                         = (IF service_env.load_model_raises THEN 503 ELSE 200)
                  /\ health.message
                         = (IF service_env.load_model_raises THEN "unhealthy"
                                                             ELSE "healthy")
                  /\ health.status = 200 <=> model_loaded
            /\ pc = "inference_answered" =>
                  /\ (service_env.load_model_raises
                         /\ request.body \in {"array", "object"})
                        => response.status = 503
                  /\ response.status = 503 => ~model_loaded
                  /\ request.body \in {"array", "object"}
                        => (response.status = 503
                               <=> health_check(model_loaded).status # 200))
    /\ [][Serving => model_loaded' = model_loaded]_vars

\* After a failed startup load, an IMAGE request with a frame answered 503.
C28_Witness ==
    /\ pc = "inference_answered"
    /\ service_env.load_model_raises
    /\ ~model_loaded
    /\ request.body = "object"
    /\ request.mediaType = "IMAGE"
    /\ request.extractedFrames # <<>>
    /\ response.status = 503
    /\ response.message = "Model is not loaded"

(***************************************************************************)
(* face_detection.py: several threads calling at once                      *)
(* Each thread makes one call of detect_and_crop_face,                     *)
(* detect_faces_in_frame or get_detection_method, the public functions     *)
(* that call get_face_detector.                                            *)
(***************************************************************************)
NumThreads == 2         \* threads calling into face_detection.py

Threads == 1..NumThreads

\* The environments the threads meet: a model file that can be fetched or
\* not, a construction that raises or not, a Haar cascade that loads or not.
ThreadEnvs ==
    {env \in DetectorEnvs :
        /\ env.model_fetch \in {"ok", "refused"} /\ env.config_fetch = "ok"
        /\ ~env.makedirs_raises /\ ~env.detect_raises}

InitThreads ==
    /\ pc = "threads"
    /\ face_detector = "None"
    /\ detector_initialized = FALSE
    /\ detection_method = NoMethod
    /\ detector_env \in ThreadEnvs
    /\ thread_local \in [Threads -> {EnterCall(caller) : caller \in Callers}]
    /\ thread_pc = [t \in Threads |->
                       IF thread_local[t].caller = "get_detection_method"
                         THEN "line_364" ELSE "line_49"]
    /\ files \in {{}, DetectorFiles}
    /\ init_entries = 0
    /\ downloads = [f \in DetectorFiles |-> 0]
    /\ loads = 0
    /\ FaceArgsIdle
    /\ FramesIdle
    /\ ScoresIdle
    /\ ServiceIdle

NextThreads ==
    \E t \in Threads :
        \/ CheckMethodInitialized(t)
        \/ DetectorStep(t)
        \/ Detect(t)
        \/ ReturnMethod(t)

SpecThreads == InitThreads /\ [][NextThreads]_vars

\* C14: when several threads call get_face_detector before the detector is
\* initialised, the initialisation body is entered at most once, each
\* detector file is fetched at most once and a detector is constructed at
\* most once.
C14_SingleInit ==
    /\ init_entries <= 1
    /\ loads <= 1
    /\ \A f \in DetectorFiles : downloads[f] <= 1

\* C24: once get_face_detector has marked the detector initialised, the
\* detector object and the detection-method name never change again,
\* whatever the interleaving of the callers.
C24_FrozenAfterInit ==
    [][detector_initialized =>
          /\ face_detector' = face_detector
          /\ detection_method' = detection_method]_vars

\* C27: in every interleaving of detect_and_crop_face calls, each call
\* dispatches to the detection routine that matches the detector object it
\* obtained: the DNN routine for the DNN net, the Haar routine for the Haar
\* cascade, none without a detector.
C27_RoutineMatchesDetector ==
    \A t \in Threads :
        (/\ thread_pc[t] = "returned"
         /\ thread_local[t].caller = "detect_and_crop_face") =>
            /\ thread_local[t].outcome # "raised"
            /\ thread_local[t].detector = "net"
                  => thread_local[t].routine = "dnn"
            /\ thread_local[t].detector = "cascade"
                  => thread_local[t].routine = "haar"
            /\ thread_local[t].detector = "None"
                  => thread_local[t].routine = "none"

(***************************************************************************)
(* The whole model: any one of the operations, on any of its inputs        *)
(***************************************************************************)
Init ==
    \/ InitCrop \/ InitSelect \/ InitDnn \/ InitFrames \/ InitExtract
    \/ InitExtractAny \/ InitScores \/ InitInference \/ InitService
    \/ InitThreads

Next ==
    \/ NextCrop \/ NextSelect \/ NextDnn \/ NextFrames \/ NextExtract
    \/ NextScores \/ NextInference \/ NextService \/ NextThreads

Spec == Init /\ [][Next]_vars

====
